---- MODULE Spec2Model ----
(***************************************************************************)
(* AnswerAnalyzer (src/answer_analyzer.py): the multi-signal scoring of an *)
(* interview answer and the rule-based feedback generator.                 *)
(*                                                                         *)
(* Representation.                                                         *)
(*   - A Python str is a sequence of one-character strings, so that        *)
(*     str.lower, str.count, `in`, str.strip and the regular expression    *)
(*     are computed character by character.                                *)
(*   - A Python dict is a function (record); d.get(k, v) is Get(d, k, v),  *)
(*     d[k] on a missing key is a KeyError.  {} is EmptyDict.              *)
(*   - None is <<>> and a supplied optional value v is <<v>>.              *)
(*   - Every score, level, percentage and rate is carried in tenths of a   *)
(*     point (fixed point, one decimal: what round(x, 1) keeps), so        *)
(*     Pts(70) is the score 70 and 705 is 70.5.  Counts are plain          *)
(*     integers.                                                           *)
(*   - round(x, n) is computed on the exact decimal value, ties to even.   *)
(*     Python rounds the binary double, which can resolve a value that is  *)
(*     a tie in decimal (64.45) either way; that last-digit effect of      *)
(*     binary floating point is not modelled.                              *)
(***************************************************************************)
EXTENDS Integers, Sequences, FiniteSets, TLC

\* ------------------------------------------------------------------------
\* Python built-ins
\* ------------------------------------------------------------------------

\* n points in tenths of a point
Pts(n) == 10 * n

\* min(a, b) and max(a, b)
Min(a, b) == IF a <= b THEN a ELSE b

Max(a, b) == IF a >= b THEN a ELSE b

\* round(num / den) to the nearest integer, ties to even (Python 3 round);
\* num >= 0, den > 0
RoundHalfEven(num, den) ==
  LET q == num \div den
      r == num % den
  IN  IF 2 * r < den THEN q
      ELSE IF 2 * r > den THEN q + 1
      ELSE IF q % 2 = 0 THEN q ELSE q + 1

\* {} and d.get(k, default)
EmptyDict == [k \in {} |-> 0]

Get(d, k, default) == IF k \in DOMAIN d THEN d[k] ELSE default

\* Optional values: None, and the truth value Python gives an optional dict
None == <<>>

Some(v) == <<v>>

Truthy(opt) == opt # None /\ DOMAIN opt[1] # {}

\* str.lower()
LowerOf ==
  [c \in {"A","B","C","D","E","F","G","H","I","J","K","L","M",
          "N","O","P","Q","R","S","T","U","V","W","X","Y","Z"} |->
     CASE c = "A" -> "a" [] c = "B" -> "b" [] c = "C" -> "c" [] c = "D" -> "d"
       [] c = "E" -> "e" [] c = "F" -> "f" [] c = "G" -> "g" [] c = "H" -> "h"
       [] c = "I" -> "i" [] c = "J" -> "j" [] c = "K" -> "k" [] c = "L" -> "l"
       [] c = "M" -> "m" [] c = "N" -> "n" [] c = "O" -> "o" [] c = "P" -> "p"
       [] c = "Q" -> "q" [] c = "R" -> "r" [] c = "S" -> "s" [] c = "T" -> "t"
       [] c = "U" -> "u" [] c = "V" -> "v" [] c = "W" -> "w" [] c = "X" -> "x"
       [] c = "Y" -> "y" [] c = "Z" -> "z"]

StrLower(s) ==
  [i \in 1..Len(s) |-> IF s[i] \in DOMAIN LowerOf THEN LowerOf[s[i]] ELSE s[i]]

Digits == {"0","1","2","3","4","5","6","7","8","9"}

LowerLetters ==
  {"a","b","c","d","e","f","g","h","i","j","k","l","m",
   "n","o","p","q","r","s","t","u","v","w","x","y","z"}

IsSpace(c) == c = " "

IsLetter(c) == c \in LowerLetters \/ c \in DOMAIN LowerOf

\* \w of the regular expressions
IsWordChar(c) == IsLetter(c) \/ c \in Digits

\* str.isalpha()
IsAlpha(s) == Len(s) > 0 /\ \A i \in 1..Len(s) : IsLetter(s[i])

\* `not answer or not answer.strip()`
IsBlank(s) == \A i \in 1..Len(s) : IsSpace(s[i])

\* sub occurs in s at position i
MatchAt(s, sub, i) ==
  /\ i + Len(sub) - 1 <= Len(s)
  /\ \A k \in 1..Len(sub) : s[i + k - 1] = sub[k]

\* `sub in s`
StrIn(sub, s) == \E i \in 1..(Len(s) - Len(sub) + 1) : MatchAt(s, sub, i)

\* s.count(sub): non-overlapping occurrences, scanned left to right
RECURSIVE CountFrom(_, _, _)
CountFrom(s, sub, i) ==
  LET starts == {j \in i..(Len(s) - Len(sub) + 1) : MatchAt(s, sub, j)}
  IN  IF starts = {} THEN 0
      ELSE LET j == CHOOSE j \in starts : \A k \in starts : j <= k
           IN  1 + CountFrom(s, sub, j + Len(sub))

StrCount(s, sub) == CountFrom(s, sub, 1)

\* sum(...) over a sequence of integers
RECURSIVE SumSeq(_)
SumSeq(xs) == IF xs = <<>> THEN 0 ELSE Head(xs) + SumSeq(Tail(xs))

\* set(xs) of a sequence
SetOf(xs) == {xs[i] : i \in 1..Len(xs)}

\* any(w in s for w in words)
AnyIn(words, s) == \E k \in 1..Len(words) : StrIn(words[k], s)

\* a mutant of CountPresent: every occurrence counts
\* (sum(s.count(w) for w in words))
CountPresent_Occurrences(words, s) == SumSeq([k \in 1..Len(words) |-> StrCount(s, words[k])])

\* sum(1 for w in words if w in s)
CountPresent(words, s) == Cardinality({k \in 1..Len(words) : StrIn(words[k], s)})

\* ------------------------------------------------------------------------
\* Libraries the analyzer calls (nltk, vaderSentiment, textblob): outside
\* the repository, modelled by what they return on the texts of this model
\* ------------------------------------------------------------------------

\* the character classes the tokenizer separates
CharClass(c) ==
  IF IsWordChar(c) THEN "word" ELSE IF c = "." THEN "dots" ELSE IF IsSpace(c) THEN "space" ELSE "punct"

\* last position of the token that starts at i: a run of word characters, a
\* run of full stops, or one punctuation character
TokenEnd(s, i) ==
  IF CharClass(s[i]) = "punct" THEN i
  ELSE CHOOSE j \in i..Len(s) :
         /\ \A k \in i..j : CharClass(s[k]) = CharClass(s[i])
         /\ (j = Len(s) \/ CharClass(s[j + 1]) # CharClass(s[i]))

\* nltk.tokenize.word_tokenize
RECURSIVE TokensFrom(_, _)
TokensFrom(s, i) ==
  IF i > Len(s) THEN <<>>
  ELSE IF IsSpace(s[i]) THEN TokensFrom(s, i + 1)
  ELSE LET j == TokenEnd(s, i) IN <<SubSeq(s, i, j)>> \o TokensFrom(s, j + 1)

word_tokenize(s) == TokensFrom(s, 1)

\* nltk.tokenize.sent_tokenize, as the number of sentences: a single full
\* stop followed by white space and more text ends a sentence; an ellipsis
\* does not
SentenceBreaks(s) ==
  {i \in 1..Len(s) :
     /\ s[i] = "."
     /\ (i = 1 \/ s[i - 1] # ".")
     /\ i < Len(s) /\ IsSpace(s[i + 1])
     /\ \E k \in (i + 1)..Len(s) : ~IsSpace(s[k])}

sent_tokenize_len(s) == IF IsBlank(s) THEN 0 ELSE Cardinality(SentenceBreaks(s)) + 1

\* nltk.corpus.stopwords.words('english') (the entries the texts of this
\* model can meet)
EnglishStopWords ==
  { <<"i">>, <<"m","e">>, <<"m","y">>, <<"w","e">>, <<"o","u","r">>,
    <<"y","o","u">>, <<"y","o","u","r">>, <<"i","t">>, <<"i","t","s">>, <<"t","h","i","s">>,
    <<"t","h","a","t">>, <<"w","h","a","t">>, <<"w","h","i","c","h">>, <<"w","h","o">>, <<"i","s">>,
    <<"a","r","e">>, <<"w","a","s">>, <<"w","e","r","e">>, <<"b","e">>, <<"h","a","v","e">>,
    <<"h","a","d">>, <<"d","o">>, <<"d","i","d">>, <<"a">>, <<"a","n">>,
    <<"t","h","e">>, <<"a","n","d">>, <<"b","u","t">>, <<"i","f">>, <<"a","s">>,
    <<"o","f">>, <<"a","t">>, <<"b","y">>, <<"f","o","r">>, <<"w","i","t","h">>,
    <<"i","n">>, <<"o","n">>, <<"t","o">>, <<"t","h","e","n">>, <<"w","h","e","n">>,
    <<"h","o","w">>, <<"s","o">>, <<"s","u","c","h">>, <<"n","o","t">>, <<"v","e","r","y">> }

\* str.split(): the maximal runs of non-space characters
RECURSIVE SplitFrom(_, _)
SplitFrom(s, i) ==
  IF i > Len(s) THEN <<>>
  ELSE IF IsSpace(s[i]) THEN SplitFrom(s, i + 1)
  ELSE LET j == CHOOSE j \in i..Len(s) :
                  /\ \A k \in i..j : ~IsSpace(s[k])
                  /\ (j = Len(s) \/ IsSpace(s[j + 1]))
       IN  <<SubSeq(s, i, j)>> \o SplitFrom(s, j + 1)

\* a word without the punctuation around it (kept as it is when nothing
\* else is left), lowercased: the key looked up in a sentiment lexicon
LexiconKey(w) ==
  LET core == {i \in 1..Len(w) : IsWordChar(w[i])}
  IN  IF core = {} THEN w
      ELSE StrLower(SubSeq(w, CHOOSE i \in core : \A k \in core : i <= k,
                              CHOOSE i \in core : \A k \in core : i >= k))

\* valence of a word in the VADER lexicon, in tenths (0: not in it)
VaderLexicon ==
  (<<"l","i","k","e">> :> 15) @@
  (<<"w","e","l","l">> :> 11) @@
  (<<"y","e","a","h">> :> 12) @@
  (<<"o","k","a","y">> :> 9) @@
  (<<"i","m","p","r","o","v","e","d">> :> 21) @@
  (<<"g","o","o","d">> :> 19) @@
  (<<"b","a","d">> :> -25) @@
  (<<"f","a","i","l","e","d">> :> -23) @@
  (<<"p","r","o","b","l","e","m">> :> -17)

Valence(w) == IF LexiconKey(w) \in DOMAIN VaderLexicon THEN VaderLexicon[LexiconKey(w)] ELSE 0

\* SentimentIntensityAnalyzer.polarity_scores: the proportions pos, neg and
\* neu of the text in thousandths; a word of valence v weighs |v| + 1 on its
\* side, a word outside the lexicon weighs 1 as neutral
polarity_scores(text) ==
  LET ws    == SplitFrom(text, 1)
      pos   == SumSeq([k \in 1..Len(ws) |-> IF Valence(ws[k]) > 0 THEN Valence(ws[k]) + 10 ELSE 0])
      neg   == SumSeq([k \in 1..Len(ws) |-> IF Valence(ws[k]) < 0 THEN 10 - Valence(ws[k]) ELSE 0])
      neu   == SumSeq([k \in 1..Len(ws) |-> IF Valence(ws[k]) = 0 THEN 10 ELSE 0])
      total == pos + neg + neu
  IN  IF total = 0 THEN [pos |-> 0, neg |-> 0, neu |-> 0]
      ELSE [pos |-> RoundHalfEven(1000 * pos, total),
            neg |-> RoundHalfEven(1000 * neg, total),
            neu |-> RoundHalfEven(1000 * neu, total)]

\* polarity and subjectivity of a word in TextBlob's lexicon, in thousandths
TextBlobLexicon ==
  (<<"g","o","o","d">> :> [polarity |-> 700, subjectivity |-> 600]) @@
  (<<"b","a","d">> :> [polarity |-> -700, subjectivity |-> 667]) @@
  (<<"f","a","i","l","e","d">> :> [polarity |-> -500, subjectivity |-> 300])

\* TextBlob(text).sentiment: the mean polarity and subjectivity of the words
\* of the text that the lexicon knows, rounded to 3 decimals; polarity is
\* signed
TextBlobSentiment(text) ==
  LET ws    == SplitFrom(text, 1)
      known == {k \in 1..Len(ws) : LexiconKey(ws[k]) \in DOMAIN TextBlobLexicon}
      n     == Cardinality(known)
      pol   == SumSeq([k \in 1..Len(ws) |-> IF k \in known THEN TextBlobLexicon[LexiconKey(ws[k])].polarity ELSE 0])
      sub   == SumSeq([k \in 1..Len(ws) |-> IF k \in known THEN TextBlobLexicon[LexiconKey(ws[k])].subjectivity ELSE 0])
  IN  IF n = 0 THEN [polarity |-> 0, subjectivity |-> 0]
      ELSE [polarity |-> IF pol >= 0 THEN RoundHalfEven(pol, n) ELSE 0 - RoundHalfEven(0 - pol, n),
            subjectivity |-> RoundHalfEven(sub, n)]

\* ------------------------------------------------------------------------
\* AnswerAnalyzer: the word lists of the source
\* ------------------------------------------------------------------------

\* self.filler_words as __init__ sets it
FillerWords ==
  << <<"u","m">>, <<"u","h">>, <<"l","i","k","e">>,
     <<"y","o","u"," ","k","n","o","w">>, <<"s","o","r","t"," ","o","f">>, <<"k","i","n","d"," ","o","f">>,
     <<"i"," ","m","e","a","n">>, <<"a","c","t","u","a","l","l","y">>, <<"b","a","s","i","c","a","l","l","y">>,
     <<"l","i","t","e","r","a","l","l","y">>, <<"s","e","r","i","o","u","s","l","y">>, <<"h","o","n","e","s","t","l","y">>,
     <<"r","i","g","h","t">>, <<"o","k","a","y">>, <<"s","o">>,
     <<"w","e","l","l">>, <<"y","e","a","h">> >>

\* the phrase lists of _analyze_content_quality
ExamplePhrases ==
  << <<"f","o","r"," ","e","x","a","m","p","l","e">>, <<"f","o","r"," ","i","n","s","t","a","n","c","e">>, <<"s","u","c","h"," ","a","s">>,
     <<"l","i","k","e"," ","w","h","e","n">>, <<"s","p","e","c","i","f","i","c","a","l","l","y">> >>

QuantificationWords ==
  << <<"i","n","c","r","e","a","s","e","d">>, <<"d","e","c","r","e","a","s","e","d">>, <<"i","m","p","r","o","v","e","d">>,
     <<"r","e","d","u","c","e","d">>, <<"a","c","h","i","e","v","e","d">>, <<"p","e","r","c","e","n","t">>,
     <<"%">>, <<"t","i","m","e","s">>, <<"d","o","u","b","l","e","d">>,
     <<"t","r","i","p","l","e","d">> >>

SituationWords ==
  << <<"s","i","t","u","a","t","i","o","n">>, <<"c","o","n","t","e","x","t">>, <<"b","a","c","k","g","r","o","u","n","d">> >>

TaskWords ==
  << <<"t","a","s","k">>, <<"g","o","a","l">>, <<"o","b","j","e","c","t","i","v","e">>,
     <<"c","h","a","l","l","e","n","g","e">> >>

ActionWords ==
  << <<"a","c","t","i","o","n">>, <<"d","i","d">>, <<"i","m","p","l","e","m","e","n","t","e","d">>,
     <<"d","e","v","e","l","o","p","e","d">> >>

ResultWords ==
  << <<"r","e","s","u","l","t">>, <<"o","u","t","c","o","m","e">>, <<"i","m","p","a","c","t">>,
     <<"a","c","h","i","e","v","e","m","e","n","t">> >>

\* the transition words of _analyze_clarity
transitions ==
  << <<"f","i","r","s","t">>, <<"s","e","c","o","n","d">>, <<"t","h","e","n">>,
     <<"n","e","x","t">>, <<"f","i","n","a","l","l","y">>, <<"a","d","d","i","t","i","o","n","a","l","l","y">>,
     <<"m","o","r","e","o","v","e","r">>, <<"h","o","w","e","v","e","r">>, <<"t","h","e","r","e","f","o","r","e">>,
     <<"c","o","n","s","e","q","u","e","n","t","l","y">> >>

\* the phrase lists of _analyze_professionalism
professional_phrases ==
  << <<"e","x","p","e","r","i","e","n","c","e">>, <<"r","e","s","p","o","n","s","i","b","l","e"," ","f","o","r">>, <<"a","c","h","i","e","v","e","d">>,
     <<"d","e","v","e","l","o","p","e","d">>, <<"i","m","p","l","e","m","e","n","t","e","d">>, <<"c","o","l","l","a","b","o","r","a","t","e","d">>,
     <<"m","a","n","a","g","e","d">>, <<"l","e","d">>, <<"i","n","i","t","i","a","t","e","d">> >>

casual_words ==
  << <<"g","o","n","n","a">>, <<"w","a","n","n","a">>, <<"k","i","n","d","a">>,
     <<"s","o","r","t","a">>, <<"y","e","a","h">>, <<"s","t","u","f","f">>,
     <<"t","h","i","n","g","s">>, <<"l","i","k","e">> >>

\* ------------------------------------------------------------------------
\* AnswerAnalyzer: the analyzers
\* ------------------------------------------------------------------------

\* speaking_rate = (len(words) / duration) * 60 if duration > 0 else 0, kept
\* as the exact fraction num / den of words per minute
SpeakingRate(nwords, duration) ==
  IF duration > 0 THEN [num |-> nwords * 60, den |-> duration] ELSE [num |-> 0, den |-> 1]

\* rate < x and rate > x for a rate kept as a fraction
RateLt(rate, x) == rate.num < x * rate.den

RateGt(rate, x) == rate.num > x * rate.den

\* a mutant of _get_speaking_pace: each threshold belongs to the slower pace
\* (rate <= 100, <= 130, <= 160, <= 190)
_get_speaking_pace_inclusive(rate) ==
  IF rate.num = 0 THEN "unknown"
  ELSE IF ~RateGt(rate, 100) THEN "too slow"
  ELSE IF ~RateGt(rate, 130) THEN "slow"
  ELSE IF ~RateGt(rate, 160) THEN "optimal"
  ELSE IF ~RateGt(rate, 190) THEN "fast"
  ELSE "too fast"

\* _get_speaking_pace
_get_speaking_pace(rate) ==
  IF rate.num = 0 THEN "unknown"
  ELSE IF RateLt(rate, 100) THEN "too slow"
  ELSE IF RateLt(rate, 130) THEN "slow"
  ELSE IF RateLt(rate, 160) THEN "optimal"
  ELSE IF RateLt(rate, 190) THEN "fast"
  ELSE "too fast"

\* one match of r'\b(\w+)\s+\1\b' starting at i: the position of its last
\* character, 0 when there is none
StutterEnd(s, i) ==
  IF ~(IsWordChar(s[i]) /\ (i = 1 \/ ~IsWordChar(s[i - 1]))) THEN 0
  ELSE LET j == CHOOSE j \in i..Len(s) :
                  /\ \A k \in i..j : IsWordChar(s[k])
                  /\ (j = Len(s) \/ ~IsWordChar(s[j + 1]))
           w == SubSeq(s, i, j)
       IN  IF j = Len(s) \/ ~IsSpace(s[j + 1]) THEN 0
           ELSE LET k == CHOOSE k \in (j + 1)..Len(s) :
                           /\ \A m \in (j + 1)..k : IsSpace(s[m])
                           /\ (k = Len(s) \/ ~IsSpace(s[k + 1]))
                    e == k + Len(w)
                IN  IF MatchAt(s, w, k + 1) /\ (e = Len(s) \/ ~IsWordChar(s[e + 1]))
                    THEN e ELSE 0

\* len(re.findall(stutter_pattern, s)) from position i on
RECURSIVE StuttersFrom(_, _)
StuttersFrom(s, i) ==
  LET starts == {j \in i..Len(s) : StutterEnd(s, j) > 0}
  IN  IF starts = {} THEN 0
      ELSE LET j == CHOOSE j \in starts : \A k \in starts : j <= k
           IN  1 + StuttersFrom(s, StutterEnd(s, j) + 1)

\* repetitions: the words (alphabetic, longer than 3) that occur more than twice
Repetitions(words) ==
  Cardinality({w \in SetOf(words) :
                 /\ IsAlpha(w) /\ Len(w) > 3
                 /\ Cardinality({k \in 1..Len(words) : words[k] = w}) > 2})

\* a mutant of FluencyScore: every rate that is 'too fast' (190 and more) is
\* penalised
FluencyScore_PenaltyFrom190(filler_count, stutters, pause_indicators, rate) ==
  LET base == 100 - Min(filler_count * 5, 30) - Min(stutters * 10, 20)
                  - Min(pause_indicators * 5, 15)
      adj  == IF rate.num > 0 /\ (RateLt(rate, 100) \/ ~RateLt(rate, 190)) THEN 10 ELSE 0
  IN  Max(0, Min(100, base - adj))

\* the fluency score of _analyze_speech_features, in points
FluencyScore(filler_count, stutters, pause_indicators, rate) ==
  LET base == 100 - Min(filler_count * 5, 30) - Min(stutters * 10, 20)
                  - Min(pause_indicators * 5, 15)
      adj  == IF rate.num > 0 /\ (RateLt(rate, 100) \/ RateGt(rate, 200)) THEN 10 ELSE 0
  IN  Max(0, Min(100, base - adj))

\* the dict _analyze_speech_features returns, from what it measured on the
\* text
SpeechFeatures(filler_count, nwords, repetitions, pause_indicators, stutters, duration) ==
  LET speaking_rate == SpeakingRate(nwords, duration)
  IN  [filler_word_count    |-> filler_count,
       speaking_rate        |-> RoundHalfEven(10 * speaking_rate.num, speaking_rate.den),
       repetitions          |-> repetitions,
       stuttering_instances |-> stutters,
       pause_indicators     |-> pause_indicators,
       fluency_score        |-> Pts(FluencyScore(filler_count, stutters, pause_indicators, speaking_rate)),
       speaking_pace        |-> _get_speaking_pace(speaking_rate)]

\* a mutant of pause_indicators: only the "..." are counted
pause_indicators_ellipsis_only(text) == StrCount(text, <<".", ".", ".">>)

\* pause_indicators = text.count('...') + text.count('..')
pause_indicators(text) == StrCount(text, <<".", ".", ".">>) + StrCount(text, <<".", ".">>)

\* _analyze_speech_features
_analyze_speech_features(fillers, text, duration) ==
  LET text_lower == StrLower(text)
      words      == word_tokenize(text_lower)
  IN  SpeechFeatures(SumSeq([k \in 1..Len(fillers) |-> StrCount(text_lower, fillers[k])]),
                     Len(words),
                     Repetitions(words),
                     pause_indicators(text),
                     StuttersFrom(text_lower, 1),
                     duration)

\* round(x, 1) of a video metric given in hundredths of a point
Round1(x) == RoundHalfEven(x, 10)

\* a mutant of FacialConfidence: the confidence is not clamped
FacialConfidence_Unclamped(engagement, dominant_emotion) ==
  IF dominant_emotion \in {"happy", "focused"} THEN engagement + 1000
  ELSE IF dominant_emotion \in {"sad", "worried"} THEN engagement - 1000
  ELSE engagement

\* the confidence of _analyze_facial_expressions, in hundredths: engagement,
\* plus 10 for a happy or focused face, minus 10 for a sad or worried one,
\* clamped to 0..100
FacialConfidence(engagement, dominant_emotion) ==
  LET confidence == IF dominant_emotion \in {"happy", "focused"} THEN engagement + 1000
                    ELSE IF dominant_emotion \in {"sad", "worried"} THEN engagement - 1000
                    ELSE engagement
  IN  Max(0, Min(10000, confidence))

\* a mutant of _analyze_facial_expressions: the eye-contact and nervousness
\* thresholds are inclusive on the other side
_analyze_facial_expressions_inclusive(video_data) ==
  IF ~Truthy(video_data)
  THEN [confidence_level |-> Pts(70), nervousness |-> "moderate",
        eye_contact |-> "good", expressions |-> "neutral"]
  ELSE LET eye_contact_pct  == Get(video_data[1], "eye_contact_percentage", 6000)
           dominant_emotion == Get(video_data[1], "dominant_emotion", "neutral")
           engagement       == Get(video_data[1], "engagement_score", 7000)
           nervousness      == IF engagement <= 5000 THEN "high"
                               ELSE IF engagement <= 7000 THEN "moderate" ELSE "low"
       IN  [confidence_level       |-> Round1(FacialConfidence(engagement, dominant_emotion)),
            nervousness            |-> nervousness,
            eye_contact            |-> IF eye_contact_pct >= 7000 THEN "excellent"
                                       ELSE IF eye_contact_pct >= 5000 THEN "good"
                                       ELSE "needs improvement",
            eye_contact_percentage |-> Round1(eye_contact_pct),
            dominant_emotion       |-> dominant_emotion,
            engagement_score       |-> Round1(engagement)]

\* _analyze_facial_expressions; the metrics of video_data are in hundredths
\* of a point, video_data is None (<<>>) or a dict (<<d>>)
_analyze_facial_expressions(video_data) ==
  IF ~Truthy(video_data)
  THEN [confidence_level |-> Pts(70), nervousness |-> "moderate",
        eye_contact |-> "good", expressions |-> "neutral"]
  ELSE LET eye_contact_pct  == Get(video_data[1], "eye_contact_percentage", 6000)
           dominant_emotion == Get(video_data[1], "dominant_emotion", "neutral")
           engagement       == Get(video_data[1], "engagement_score", 7000)
           nervousness      == IF engagement < 5000 THEN "high"
                               ELSE IF engagement < 7000 THEN "moderate" ELSE "low"
       IN  [confidence_level       |-> Round1(FacialConfidence(engagement, dominant_emotion)),
            nervousness            |-> nervousness,
            eye_contact            |-> IF eye_contact_pct > 7000 THEN "excellent"
                                       ELSE IF eye_contact_pct > 5000 THEN "good"
                                       ELSE "needs improvement",
            eye_contact_percentage |-> Round1(eye_contact_pct),
            dominant_emotion       |-> dominant_emotion,
            engagement_score       |-> Round1(engagement)]

\* the dict _analyze_text_metrics returns, from the numbers of words and
\* sentences, the number of content words, their total length and the number
\* of distinct ones: avg_word_length and avg_sentence_length in hundredths,
\* vocabulary_richness in thousandths
TextMetrics(nwords, nsentences, ncontent, content_chars, unique) ==
  [word_count          |-> nwords,
   sentence_count      |-> nsentences,
   content_word_count  |-> ncontent,
   avg_word_length     |-> IF ncontent > 0 THEN RoundHalfEven(100 * content_chars, ncontent) ELSE 0,
   avg_sentence_length |-> IF nsentences > 0 THEN RoundHalfEven(100 * nwords, nsentences) ELSE 0,
   unique_words        |-> unique,
   vocabulary_richness |-> IF ncontent > 0 THEN RoundHalfEven(1000 * unique, ncontent) ELSE 0]

\* _analyze_text_metrics
_analyze_text_metrics(stops, text) ==
  LET words         == word_tokenize(StrLower(text))
      content_words == SelectSeq(words, LAMBDA w : IsAlpha(w) /\ w \notin stops)
  IN  TextMetrics(Len(words), sent_tokenize_len(text), Len(content_words),
                  SumSeq([k \in 1..Len(content_words) |-> Len(content_words[k])]),
                  Cardinality(SetOf(content_words)))

\* a mutant of QualityScore: the score is not capped at 100
QualityScore_Uncapped(has_numbers, has_examples, has_quantification, has_situation, has_task, has_action, has_result) ==
  50 + (IF has_numbers THEN 10 ELSE 0)
     + (IF has_examples THEN 15 ELSE 0)
     + (IF has_quantification THEN 15 ELSE 0)
     + (IF has_situation THEN 5 ELSE 0)
     + (IF has_task THEN 5 ELSE 0)
     + (IF has_action THEN 5 ELSE 0)
     + (IF has_result THEN 10 ELSE 0)

\* a mutant of QualityScore: an example is worth 5 points
QualityScore_ExampleWorthFive(has_numbers, has_examples, has_quantification, has_situation, has_task, has_action, has_result) ==
  Min(100, 50 + (IF has_numbers THEN 10 ELSE 0)
              + (IF has_examples THEN 5 ELSE 0)
              + (IF has_quantification THEN 15 ELSE 0)
              + (IF has_situation THEN 5 ELSE 0)
              + (IF has_task THEN 5 ELSE 0)
              + (IF has_action THEN 5 ELSE 0)
              + (IF has_result THEN 10 ELSE 0))

\* the quality score of _analyze_content_quality, in points
QualityScore(has_numbers, has_examples, has_quantification, has_situation, has_task, has_action, has_result) ==
  Min(100, 50 + (IF has_numbers THEN 10 ELSE 0)
              + (IF has_examples THEN 15 ELSE 0)
              + (IF has_quantification THEN 15 ELSE 0)
              + (IF has_situation THEN 5 ELSE 0)
              + (IF has_task THEN 5 ELSE 0)
              + (IF has_action THEN 5 ELSE 0)
              + (IF has_result THEN 10 ELSE 0))

\* a mutant of ContentQuality: uses_star_method does not ask for a result
ContentQuality_StarWithoutResult(has_numbers, has_examples, has_quantification, has_situation, has_task, has_action, has_result) ==
  [quality_score            |-> Pts(QualityScore(has_numbers, has_examples, has_quantification,
                                                 has_situation, has_task, has_action, has_result)),
   has_specific_examples    |-> has_examples,
   has_quantifiable_results |-> has_quantification,
   has_numbers              |-> has_numbers,
   uses_star_method         |-> has_situation /\ has_task /\ has_action]

\* the dict _analyze_content_quality returns, from the markers it found
ContentQuality(has_numbers, has_examples, has_quantification, has_situation, has_task, has_action, has_result) ==
  [quality_score            |-> Pts(QualityScore(has_numbers, has_examples, has_quantification,
                                                 has_situation, has_task, has_action, has_result)),
   has_specific_examples    |-> has_examples,
   has_quantifiable_results |-> has_quantification,
   has_numbers              |-> has_numbers,
   uses_star_method         |-> has_situation /\ has_task /\ has_action /\ has_result]

\* _analyze_content_quality
_analyze_content_quality(text, question) ==
  LET text_lower == StrLower(text)
  IN  ContentQuality(\E i \in 1..Len(text) : text[i] \in Digits,
                     AnyIn(ExamplePhrases, text_lower),
                     AnyIn(QuantificationWords, text_lower),
                     AnyIn(SituationWords, text_lower),
                     AnyIn(TaskWords, text_lower),
                     AnyIn(ActionWords, text_lower),
                     AnyIn(ResultWords, text_lower))

\* the dict _analyze_sentiment returns, from the two libraries' signals:
\* confidence = 50 + pos * 50 - neg * 30, clamped, in thousandths of a point
\* before it is rounded to one decimal
Sentiment(sc, blob) ==
  LET confidence == Max(0, Min(100000, 50000 + sc.pos * 50 - sc.neg * 30))
  IN  [polarity         |-> blob.polarity,
       subjectivity     |-> blob.subjectivity,
       positive_score   |-> sc.pos,
       negative_score   |-> sc.neg,
       neutral_score    |-> sc.neu,
       confidence_level |-> RoundHalfEven(confidence, 100),
       enthusiasm_score |-> RoundHalfEven(sc.pos * 100, 100)]

\* _analyze_sentiment
_analyze_sentiment(text) == Sentiment(polarity_scores(text), TextBlobSentiment(text))

\* the content words of a text: {w for w in set(word_tokenize(text.lower()))
\* if w.isalpha() and w not in self.stop_words}
ContentWordSet(stops, text) ==
  {w \in SetOf(word_tokenize(StrLower(text))) : IsAlpha(w) /\ w \notin stops}

\* a mutant of RelevanceScore: the 50 of a question without content words is
\* not multiplied by 1.5
RelevanceScore_DefaultNotBoosted(overlap, nquestion) ==
  IF nquestion > 0 THEN Min(Pts(100), RoundHalfEven(1500 * overlap, nquestion))
  ELSE Pts(50)

\* the relevance score from the overlap and the number of question words:
\* min(100, relevance * 1.5) rounded to one decimal
RelevanceScore(overlap, nquestion) ==
  IF nquestion > 0 THEN Min(Pts(100), RoundHalfEven(1500 * overlap, nquestion))
  ELSE Min(Pts(100), Pts(75))

\* the dict _analyze_relevance returns, from the size of the overlap and the
\* number of content words of the question
Relevance(overlap, nquestion) ==
  [relevance_score             |-> RelevanceScore(overlap, nquestion),
   keyword_overlap             |-> overlap,
   directly_addresses_question |-> 10 * overlap >= 3 * nquestion]

\* _analyze_relevance
_analyze_relevance(stops, answer, question) ==
  LET answer_words   == ContentWordSet(stops, answer)
      question_words == ContentWordSet(stops, question)
  IN  Relevance(Cardinality(answer_words \cap question_words), Cardinality(question_words))

\* the clarity score of _analyze_clarity, in points, from the transition
\* count and the numbers of words and sentences
ClarityScore(transition_count, nwords, nsentences) ==
  LET base == 60 + Min(transition_count * 8, 24)
      adj  == IF nsentences > 0 /\ 10 * nsentences < nwords /\ nwords < 25 * nsentences THEN 16
              ELSE IF nsentences = 0 \/ nwords < 5 * nsentences THEN 0 - 10
              ELSE 0
  IN  Max(0, Min(100, base + adj))

\* the dict _analyze_clarity returns
Clarity(transition_count, nwords, nsentences) ==
  [clarity_score    |-> Pts(ClarityScore(transition_count, nwords, nsentences)),
   has_structure    |-> transition_count > 0,
   transition_words |-> transition_count]

\* _analyze_clarity
_analyze_clarity(text) ==
  Clarity(CountPresent(transitions, StrLower(text)), Len(word_tokenize(text)), sent_tokenize_len(text))

\* the professionalism score, in points
ProfessionalismScore(professional_count, casual_count) ==
  Max(0, Min(100, 70 + professional_count * 5 - casual_count * 10))

\* the dict _analyze_professionalism returns
Professionalism(professional_count, casual_count) ==
  [professionalism_score |-> Pts(ProfessionalismScore(professional_count, casual_count)),
   professional_language |-> professional_count,
   casual_language       |-> casual_count]

\* a mutant of _analyze_professionalism: every occurrence of a phrase counts
_analyze_professionalism_occurrences(text) ==
  Professionalism(CountPresent_Occurrences(professional_phrases, StrLower(text)), CountPresent_Occurrences(casual_words, StrLower(text)))

\* _analyze_professionalism
_analyze_professionalism(text) ==
  Professionalism(CountPresent(professional_phrases, StrLower(text)),
                  CountPresent(casual_words, StrLower(text)))

\* ------------------------------------------------------------------------
\* AnswerAnalyzer: aggregation, feedback, the entry points
\* ------------------------------------------------------------------------

\* the weights of _calculate_overall_score, in hundredths
weights ==
  [content_quality |-> 25, relevance |-> 20, clarity |-> 15, sentiment |-> 10,
   professionalism |-> 10, speech |-> 15, facial |-> 5]

\* a mutant of scores: a missing speech or facial score counts 0
scores_missing_as_zero(analysis) ==
  [content_quality |-> analysis.content_quality.quality_score,
   relevance       |-> analysis.relevance.relevance_score,
   clarity         |-> analysis.clarity.clarity_score,
   sentiment       |-> analysis.sentiment.confidence_level,
   professionalism |-> analysis.professionalism.professionalism_score,
   speech          |-> Get(Get(analysis, "speech_features", EmptyDict), "fluency_score", 0),
   facial          |-> Get(Get(analysis, "facial_expressions", EmptyDict), "confidence_level", 0)]

\* the scores _calculate_overall_score reads; a missing speech or facial
\* sub-bundle, or one without its score, counts 70
scores(analysis) ==
  [content_quality |-> analysis.content_quality.quality_score,
   relevance       |-> analysis.relevance.relevance_score,
   clarity         |-> analysis.clarity.clarity_score,
   sentiment       |-> analysis.sentiment.confidence_level,
   professionalism |-> analysis.professionalism.professionalism_score,
   speech          |-> Get(Get(analysis, "speech_features", EmptyDict), "fluency_score", Pts(70)),
   facial          |-> Get(Get(analysis, "facial_expressions", EmptyDict), "confidence_level", Pts(70))]

\* sum(scores[key] * weights[key] for key in weights.keys()), in thousandths
WeightedSum(sc) ==
  sc.content_quality * weights.content_quality + sc.relevance * weights.relevance
  + sc.clarity * weights.clarity + sc.sentiment * weights.sentiment
  + sc.professionalism * weights.professionalism + sc.speech * weights.speech
  + sc.facial * weights.facial

\* _calculate_overall_score: round(overall, 1)
_calculate_overall_score(analysis) == RoundHalfEven(WeightedSum(scores(analysis)), 100)

\* a mutant of _get_empty_analysis: the placeholder carries the neutral
\* overall score
_get_empty_analysis_neutral ==
  [text_metrics       |-> [word_count |-> 0],
   content_quality    |-> [quality_score |-> 0],
   sentiment          |-> [confidence_level |-> 0],
   relevance          |-> [relevance_score |-> 0],
   clarity            |-> [clarity_score |-> 0],
   professionalism    |-> [professionalism_score |-> 0],
   speech_features    |-> [fluency_score |-> 0],
   facial_expressions |-> [confidence_level |-> 0],
   overall_score      |-> Pts(70)]

\* _get_empty_analysis
_get_empty_analysis ==
  [text_metrics       |-> [word_count |-> 0],
   content_quality    |-> [quality_score |-> 0],
   sentiment          |-> [confidence_level |-> 0],
   relevance          |-> [relevance_score |-> 0],
   clarity            |-> [clarity_score |-> 0],
   professionalism    |-> [professionalism_score |-> 0],
   speech_features    |-> [fluency_score |-> 0],
   facial_expressions |-> [confidence_level |-> 0],
   overall_score      |-> 0]

\* the facial sub-bundle analyze_answer stores:
\* self._analyze_facial_expressions(video_data) if video_data else {}
FacialAnalysis(video_data) ==
  IF Truthy(video_data) THEN _analyze_facial_expressions(video_data) ELSE EmptyDict

\* the dict analyze_answer combines, before the overall score is set
CombinedAnalysis(fillers, stops, answer, question, video_data, audio_duration) ==
  [text_metrics       |-> _analyze_text_metrics(stops, answer),
   content_quality    |-> _analyze_content_quality(answer, question),
   sentiment          |-> _analyze_sentiment(answer),
   relevance          |-> _analyze_relevance(stops, answer, question),
   clarity            |-> _analyze_clarity(answer),
   professionalism    |-> _analyze_professionalism(answer),
   speech_features    |-> _analyze_speech_features(fillers, answer, audio_duration),
   facial_expressions |-> FacialAnalysis(video_data),
   overall_score      |-> 0]

\* analysis['overall_score'] = self._calculate_overall_score(analysis)
WithOverallScore(analysis) ==
  [analysis EXCEPT !.overall_score = _calculate_overall_score(analysis)]

\* a mutant of analyze_answer: the guard is `if not answer` alone, so an
\* answer of white space is analysed
analyze_answer_no_strip(fillers, stops, answer, question, video_data, audio_duration) ==
  IF answer = <<>> THEN _get_empty_analysis
  ELSE WithOverallScore(CombinedAnalysis(fillers, stops, answer, question, video_data, audio_duration))

\* analyze_answer, as the value it returns
analyze_answer(fillers, stops, answer, question, video_data, audio_duration) ==
  IF IsBlank(answer) THEN _get_empty_analysis
  ELSE WithOverallScore(CombinedAnalysis(fillers, stops, answer, question, video_data, audio_duration))

\* the key whose lookup with [] fails in get_feedback, "" when none does
FeedbackKeyError(analysis) ==
  IF "content_quality" \notin DOMAIN analysis THEN "content_quality"
  ELSE IF "quality_score" \notin DOMAIN analysis.content_quality THEN "quality_score"
  ELSE IF "speech_features" \in DOMAIN analysis
          /\ "filler_word_count" \notin DOMAIN analysis.speech_features THEN "filler_word_count"
  ELSE IF "speech_features" \in DOMAIN analysis
          /\ "stuttering_instances" \notin DOMAIN analysis.speech_features THEN "stuttering_instances"
  ELSE IF "speech_features" \in DOMAIN analysis
          /\ "speaking_pace" \notin DOMAIN analysis.speech_features THEN "speaking_pace"
  ELSE IF "relevance" \notin DOMAIN analysis THEN "relevance"
  ELSE IF "relevance_score" \notin DOMAIN analysis.relevance THEN "relevance_score"
  ELSE IF "clarity" \notin DOMAIN analysis THEN "clarity"
  ELSE IF "clarity_score" \notin DOMAIN analysis.clarity THEN "clarity_score"
  ELSE IF "professionalism" \notin DOMAIN analysis THEN "professionalism"
  ELSE IF "professionalism_score" \notin DOMAIN analysis.professionalism THEN "professionalism_score"
  ELSE IF "text_metrics" \notin DOMAIN analysis THEN "text_metrics"
  ELSE IF "word_count" \notin DOMAIN analysis.text_metrics THEN "word_count"
  ELSE ""

\* the encouragement get_feedback gives when no rule fired
Encouragement == "Excellent answer! Keep up the great work!"

\* the 14 rules of get_feedback in the order of the source: whether each
\* fires on the bundle and the string it appends
FeedbackRules(analysis) ==
  LET content    == analysis.content_quality
      has_speech == "speech_features" \in DOMAIN analysis
      speech     == analysis.speech_features
      has_facial == "facial_expressions" \in DOMAIN analysis
      facial     == analysis.facial_expressions
      word_count == analysis.text_metrics.word_count
  IN  << [fires   |-> ~Get(content, "has_specific_examples", FALSE),
          message |-> "Add specific examples from your experience to illustrate your points"],
         [fires   |-> ~Get(content, "has_quantifiable_results", FALSE),
          message |-> "Include measurable results (percentages, numbers, metrics) to demonstrate impact"],
         [fires   |-> content.quality_score < Pts(60),
          message |-> "Provide more detailed responses with concrete details and outcomes"],
         [fires   |-> has_speech /\ speech.filler_word_count > 3,
          message |-> IF has_speech
                      THEN "Reduce filler words (found " \o ToString(speech.filler_word_count)
                           \o " instances of 'um', 'uh', 'like')"
                      ELSE ""],
         [fires   |-> has_speech /\ speech.stuttering_instances > 0,
          message |-> "Practice your answers to reduce stuttering and improve fluency"],
         [fires   |-> has_speech /\ speech.speaking_pace \in {"too slow", "too fast"},
          message |-> IF has_speech
                      THEN "Adjust your speaking pace (currently " \o speech.speaking_pace
                           \o ") to 130-160 words/minute"
                      ELSE ""],
         [fires   |-> has_facial /\ Get(facial, "eye_contact_percentage", Pts(100)) < Pts(50),
          message |-> "Maintain better eye contact with the camera (look directly at it)"],
         [fires   |-> has_facial /\ Get(facial, "nervousness", "None") = "high",
          message |-> "Try to relax and appear more confident - take deep breaths before answering"],
         [fires   |-> has_facial /\ Get(facial, "engagement_score", Pts(100)) < Pts(60),
          message |-> "Show more enthusiasm and engagement through your facial expressions"],
         [fires   |-> analysis.relevance.relevance_score < Pts(60),
          message |-> "Ensure your answer directly addresses what was asked in the question"],
         [fires   |-> analysis.clarity.clarity_score < Pts(60),
          message |-> "Structure your answer better using transitions (first, then, finally)"],
         [fires   |-> analysis.professionalism.professionalism_score < Pts(60),
          message |-> "Use more professional language and avoid casual expressions"],
         [fires   |-> word_count < 30,
          message |-> "Provide longer, more detailed answers (aim for 50-150 words)"],
         [fires   |-> ~(word_count < 30) /\ word_count > 200,
          message |-> "Keep answers more concise and focused on key points"] >>

\* a mutant of FeedbackList: the encouragement is appended whether or not a
\* rule fired
FeedbackList_AlwaysEncourage(analysis) ==
  LET fired    == SelectSeq(FeedbackRules(analysis), LAMBDA r : r.fires)
      feedback == [k \in 1..Len(fired) |-> fired[k].message]
  IN  <<Encouragement>> \o feedback

\* the list get_feedback has built when it reaches its last statement
FeedbackList(analysis) ==
  LET fired    == SelectSeq(FeedbackRules(analysis), LAMBDA r : r.fires)
      feedback == [k \in 1..Len(fired) |-> fired[k].message]
  IN  IF feedback = <<>> THEN <<Encouragement>> ELSE feedback

\* a mutant of Truncate: the list is returned whole
Truncate_Off(xs, n) == xs

\* a mutant of Truncate: feedback[-n:], the last n
Truncate_Last(xs, n) == SubSeq(xs, Len(xs) - Min(n, Len(xs)) + 1, Len(xs))

\* feedback[:n]
Truncate(xs, n) == SubSeq(xs, 1, Min(n, Len(xs)))

\* get_feedback: what the call raises ("" when it returns) and the list it
\* returns
get_feedback(analysis) ==
  IF FeedbackKeyError(analysis) # ""
  THEN [raises |-> "KeyError", key |-> FeedbackKeyError(analysis), value |-> <<>>]
  ELSE [raises |-> "", key |-> "", value |-> Truncate(FeedbackList(analysis), 5)]

\* the analyzers a call of analyze_answer runs, by the key each one fills
AnalyzersRun(answer, video_data) ==
  IF IsBlank(answer) THEN {}
  ELSE {"text_metrics", "content_quality", "sentiment", "relevance", "clarity",
        "professionalism", "speech_features", "overall_score"}
       \cup (IF Truthy(video_data) THEN {"facial_expressions"} ELSE {})

\* ------------------------------------------------------------------------
\* The inputs of the model
\* ------------------------------------------------------------------------

\* the most words of an answer
MaxWords == 2

\* the words answers are made of; the empty word gives the empty answer and,
\* joined, the answers that are only white space
Vocabulary ==
  { <<>>,
    <<"u","m">>,
    <<"L","i","k","e",".",".",".">>,
    <<"s","p","e","c","i","f","i","c","a","l","l","y">>,
    <<"a","c","h","i","e","v","e","d">>,
    <<"P","y","t","h","o","n">>,
    <<"5","0","%">>,
    <<"t","h","e","n">>,
    <<"b","a","d">> }

\* ' '.join(ws)
RECURSIVE Join(_)
Join(ws) ==
  IF ws = <<>> THEN <<>>
  ELSE IF Len(ws) = 1 THEN ws[1]
  ELSE ws[1] \o <<" ">> \o Join(Tail(ws))

Answers == {Join(ws) : ws \in UNION {[1..n -> Vocabulary] : n \in 0..MaxWords}}

\* "", and "your Python experience"
Questions ==
  { <<>>,
    <<"y","o","u","r"," ","P","y","t","h","o","n"," ","e","x","p","e","r","i","e","n","c","e">> }

\* video_data: None, {}, complete signals and signals with keys missing
\* (metrics in hundredths of a point)
VideoSignals ==
  { None,
    Some(EmptyDict),
    Some([eye_contact_percentage |-> 4995, dominant_emotion |-> "sad", engagement_score |-> 500]),
    Some([eye_contact_percentage |-> 7005, dominant_emotion |-> "happy", engagement_score |-> 9996]),
    Some([engagement_score |-> 5995]),
    Some([dominant_emotion |-> "focused", eye_contact_percentage |-> 10000]) }

\* audio_duration in seconds
Durations == {0, 1, 60}

\* ------------------------------------------------------------------------
\* One call of analyze_answer followed by get_feedback on its result, as
\* submit_answer (src/app_fixed.py) and conduct_interview make them, on the
\* one analyzer the application shares
\* ------------------------------------------------------------------------

VARIABLES
  filler_words,    \* self.filler_words of the analyzer
  stop_words,      \* self.stop_words of the analyzer
  answer,          \* the arguments of the call
  question,
  video_data,
  audio_duration,
  pc,              \* "called", "analyzed", then "returned" or "raised"
  analysis,        \* what analyze_answer returned: None before, <<bundle>> after
  ran,             \* the analyzers the call ran
  feedback,        \* what get_feedback returned
  raised,          \* the exception get_feedback raised, "" when none
  calls,           \* the calls of analyze_answer made on the analyzer so far,
                   \* each with its arguments, the bundle it returned and
                   \* the reference of that bundle
  heap,            \* the bundles in memory, by reference: heap[r] is the dict
                   \* the reference r points to, as it is now
  threads,         \* the requests served at the same time, each with its own
                   \* arguments, position and local values
  interview_sessions,  \* the sessions storage of the web application
  response,        \* the last response of the web application, with its
                   \* request: None before the first request, <<r>> after
  video            \* the VideoAnalyzer and the background video loop

vars == <<filler_words, stop_words, answer, question, video_data, audio_duration,
          pc, analysis, ran, feedback, raised, calls, heap, threads,
          interview_sessions, response, video>>

\* the web application and the video loop
web == <<interview_sessions, response, video>>

\* a VideoAnalyzer as constructed (session_data of __init__) in an
\* InterviewSystem as constructed (video_thread = None, video_running =
\* False): no video loop, conduct_interview not started, no summary read
VideoIdle ==
  [total_frames |-> 0, face_detected_frames |-> 0, video_running |-> FALSE,
   loop |-> "none", main |-> "ready", total |-> 0, summary |-> None]

\* interview_sessions = {}, no request served yet, and the video analysis
\* not started
WebIdle ==
  /\ interview_sessions = EmptyDict
  /\ response = None
  /\ video = VideoIdle

\* a mutant of Allocate: the placeholder of an empty answer is one dict of
\* the module, returned by every call that needs it
Allocate_SharedPlaceholder(h, bundle) ==
  IF bundle = _get_empty_analysis /\ \E r \in 1..Len(h) : h[r] = bundle
  THEN CHOOSE r \in 1..Len(h) : h[r] = bundle
  ELSE Len(h) + 1

\* the reference of the dict a dict display ({...}) creates: an object that
\* was not in memory before
Allocate(h, bundle) == Len(h) + 1

\* memory after the dict at reference r is set to bundle
Store(h, r, bundle) == [i \in 1..Max(Len(h), r) |-> IF i = r THEN bundle ELSE h[i]]

\* the arguments of the call in progress
Arguments ==
  [answer |-> answer, question |-> question, video_data |-> video_data,
   audio_duration |-> audio_duration]

\* AnswerAnalyzer.__init__
AnalyzerInit ==
  /\ filler_words = FillerWords
  /\ stop_words = EnglishStopWords

Init ==
  /\ AnalyzerInit
  /\ answer \in Answers
  /\ question \in Questions
  /\ video_data \in VideoSignals
  /\ audio_duration \in Durations
  /\ pc = "called"
  /\ analysis = None
  /\ ran = {}
  /\ feedback = <<>>
  /\ raised = ""
  /\ calls = <<>>
  /\ heap = <<>>
  /\ threads = <<>>
  /\ WebIdle

\* a mutant of AnalyzeAnswer: the analyzer keeps, as its filler words, only
\* those it found in the answer
\* (self.filler_words = [f for f in self.filler_words if f in text_lower])
AnalyzeAnswer_NarrowsFillers ==
  /\ pc = "called"
  /\ analysis' = Some(analyze_answer(filler_words, stop_words, answer, question,
                                     video_data, audio_duration))
  /\ ran' = AnalyzersRun(answer, video_data)
  /\ heap' = Store(heap, Allocate(heap, analysis'[1]), analysis'[1])
  /\ calls' = Append(calls, [args |-> Arguments, analysis |-> analysis'[1],
                             ref |-> Allocate(heap, analysis'[1])])
  /\ pc' = "analyzed"
  /\ filler_words' = IF IsBlank(answer) THEN filler_words
                     ELSE SelectSeq(filler_words, LAMBDA f : StrIn(f, StrLower(answer)))
  /\ UNCHANGED <<stop_words, answer, question, video_data, audio_duration,
                 feedback, raised, threads>>
  /\ UNCHANGED web

\* analysis = answer_analyzer.analyze_answer(...)
AnalyzeAnswer ==
  /\ pc = "called"
  /\ analysis' = Some(analyze_answer(filler_words, stop_words, answer, question,
                                     video_data, audio_duration))
  /\ ran' = AnalyzersRun(answer, video_data)
  /\ heap' = Store(heap, Allocate(heap, analysis'[1]), analysis'[1])
  /\ calls' = Append(calls, [args |-> Arguments, analysis |-> analysis'[1],
                             ref |-> Allocate(heap, analysis'[1])])
  /\ pc' = "analyzed"
  /\ UNCHANGED <<filler_words, stop_words, answer, question, video_data, audio_duration,
                 feedback, raised, threads>>
  /\ UNCHANGED web

\* feedback = answer_analyzer.get_feedback(analysis)
GetFeedback ==
  /\ pc = "analyzed"
  /\ feedback' = get_feedback(analysis[1]).value
  /\ raised' = get_feedback(analysis[1]).raises
  /\ pc' = IF get_feedback(analysis[1]).raises = "" THEN "returned" ELSE "raised"
  /\ UNCHANGED <<filler_words, stop_words, answer, question, video_data, audio_duration,
                 analysis, ran, calls, heap, threads>>
  /\ UNCHANGED web

Next == AnalyzeAnswer \/ GetFeedback

Spec == Init /\ [][Next]_vars

\* ------------------------------------------------------------------------
\* Properties of one call (Spec)
\* ------------------------------------------------------------------------

\* the call of analyze_answer has returned
Analyzed == pc \in {"analyzed", "returned", "raised"}

\* a well-formed feedback list: 1 to 5 non-empty strings
WellFormedFeedback(fb) == Len(fb) >= 1 /\ Len(fb) <= 5 /\ \A k \in 1..Len(fb) : fb[k] # ""

\* C1: get_feedback never raises on a bundle analyze_answer returned, the
\* zeroed placeholder of an empty or white-space answer included, and returns
\* a well-formed feedback list
C1_GetFeedbackNeverRaises ==
  /\ pc # "raised"
  /\ raised = ""
  /\ pc = "returned" => WellFormedFeedback(feedback)

\* C3: analyze_answer on an empty or white-space answer runs no analyzer and
\* returns the zeroed placeholder: overall_score 0, every designated
\* sub-score 0 and word_count 0, whatever the question, the video signal and
\* the duration
C3_BlankAnswerGivesZeroedBundle ==
  (Analyzed /\ IsBlank(answer)) =>
    /\ ran = {}
    /\ analysis # None
    /\ analysis[1].overall_score = 0
    /\ analysis[1].content_quality.quality_score = 0
    /\ analysis[1].sentiment.confidence_level = 0
    /\ analysis[1].relevance.relevance_score = 0
    /\ analysis[1].clarity.clarity_score = 0
    /\ analysis[1].professionalism.professionalism_score = 0
    /\ analysis[1].speech_features.fluency_score = 0
    /\ analysis[1].facial_expressions.confidence_level = 0
    /\ analysis[1].text_metrics.word_count = 0

\* C3 witness: a white-space answer, with a question, a video signal and a
\* duration, has been analysed
C3_Witness ==
  /\ pc = "analyzed"
  /\ answer = <<" ">>
  /\ question # <<>>
  /\ Truthy(video_data)
  /\ audio_duration > 0

\* a score within 0..100 points
InRange(x) == 0 <= x /\ x <= Pts(100)

\* the score of a sub-bundle is in range when the sub-bundle has it
FieldInRange(d, k) == k \in DOMAIN d => InRange(d[k])

\* C4: every *_score field and both confidence_level fields of the returned
\* bundle, and overall_score, lie in 0..100
C4_ScoresInRange ==
  Analyzed =>
    /\ FieldInRange(analysis[1].content_quality, "quality_score")
    /\ FieldInRange(analysis[1].relevance, "relevance_score")
    /\ FieldInRange(analysis[1].clarity, "clarity_score")
    /\ FieldInRange(analysis[1].professionalism, "professionalism_score")
    /\ FieldInRange(analysis[1].speech_features, "fluency_score")
    /\ FieldInRange(analysis[1].sentiment, "enthusiasm_score")
    /\ FieldInRange(analysis[1].sentiment, "confidence_level")
    /\ FieldInRange(analysis[1].facial_expressions, "engagement_score")
    /\ FieldInRange(analysis[1].facial_expressions, "confidence_level")
    /\ InRange(analysis[1].overall_score)

\* C4 witness: a non-empty answer analysed with a video signal whose
\* engagement plus the bonus of its emotion passes 100, and a fluency score
\* below 100
C4_Witness ==
  /\ pc = "analyzed"
  /\ ~IsBlank(answer)
  /\ Truthy(video_data)
  /\ Get(video_data[1], "engagement_score", 0) + 1000 > 10000
  /\ Get(video_data[1], "dominant_emotion", "") = "happy"
  /\ analysis[1].facial_expressions.confidence_level = Pts(100)
  /\ analysis[1].speech_features.fluency_score < Pts(100)
  /\ analysis[1].overall_score > 0

\* C6: a non-empty answer analysed with no video signal gets the fixed
\* neutral facial sub-bundle: confidence_level 70, nervousness 'moderate',
\* eye_contact 'good', expressions 'neutral'
C6_NoVideoGivesNeutralFacial ==
  (Analyzed /\ ~IsBlank(answer) /\ video_data = None) =>
    analysis[1].facial_expressions =
      [confidence_level |-> Pts(70), nervousness |-> "moderate",
       eye_contact |-> "good", expressions |-> "neutral"]

\* ------------------------------------------------------------------------
\* get_feedback as a function of the bundle (SpecFeedback): the bundle is
\* assembled by the analyzers' own formulas from what they measure on an
\* answer, so that long answers and every combination of the 14 rules are
\* covered; the arguments of the call that measured it are not modelled
\* ------------------------------------------------------------------------

\* what the analyzers measured on an answer
Measurements ==
  [has_numbers        : BOOLEAN,
   has_examples       : BOOLEAN,
   has_quantification : BOOLEAN,
   filler_count       : {3, 4},
   stutters           : {0, 1},
   nwords             : {29, 30, 201},
   one_word_sentences : BOOLEAN,
   duration           : {0, 60},
   overlap            : {0, 2},
   casual_count       : {0, 2},
   video_data         : {None,
                         Some([eye_contact_percentage |-> 4500, dominant_emotion |-> "neutral", engagement_score |-> 4995]),
                         Some([eye_contact_percentage |-> 4500, dominant_emotion |-> "neutral", engagement_score |-> 5500]),
                         Some([eye_contact_percentage |-> 4500, dominant_emotion |-> "neutral", engagement_score |-> 6000]),
                         Some([eye_contact_percentage |-> 5000, dominant_emotion |-> "neutral", engagement_score |-> 4995]),
                         Some([eye_contact_percentage |-> 5000, dominant_emotion |-> "neutral", engagement_score |-> 5500]),
                         Some([eye_contact_percentage |-> 5000, dominant_emotion |-> "neutral", engagement_score |-> 6000])}]

\* the bundle analyze_answer returns for an answer on which the analyzers
\* measured m (a question of two content words, words of four letters, no
\* word of a sentiment lexicon)
MeasuredBundle(m) ==
  WithOverallScore(
    [text_metrics       |-> TextMetrics(m.nwords, IF m.one_word_sentences THEN m.nwords ELSE 1,
                                        m.nwords, 4 * m.nwords, m.nwords),
     content_quality    |-> ContentQuality(m.has_numbers, m.has_examples, m.has_quantification,
                                           FALSE, FALSE, FALSE, FALSE),
     sentiment          |-> Sentiment([pos |-> 0, neg |-> 0, neu |-> 1000],
                                      [polarity |-> 0, subjectivity |-> 0]),
     relevance          |-> Relevance(m.overlap, 2),
     clarity            |-> Clarity(0, m.nwords, IF m.one_word_sentences THEN m.nwords ELSE 1),
     professionalism    |-> Professionalism(0, m.casual_count),
     speech_features    |-> SpeechFeatures(m.filler_count, m.nwords, 0, 0, m.stutters, m.duration),
     facial_expressions |-> FacialAnalysis(m.video_data),
     overall_score      |-> 0])

\* the bundles given to get_feedback: the measured ones and the placeholder
\* of an empty answer
GivenBundles == {MeasuredBundle(m) : m \in Measurements} \cup {_get_empty_analysis}

InitFeedback ==
  /\ AnalyzerInit
  /\ answer = None /\ question = None /\ video_data = None /\ audio_duration = 0
  /\ pc = "analyzed"
  /\ analysis \in {Some(b) : b \in GivenBundles}
  /\ ran = {}
  /\ feedback = <<>>
  /\ raised = ""
  /\ calls = <<>>
  /\ heap = <<>>
  /\ threads = <<>>
  /\ WebIdle

SpecFeedback == InitFeedback /\ [][GetFeedback]_vars

\* the rules of the feedback generator that a bundle triggers, by their
\* numbers 1..14: no examples, no quantifiable results, quality below 60,
\* more than 3 fillers, a stutter, pace too slow or too fast, eye contact
\* below 50, high nervousness, engagement below 60, relevance below 60,
\* clarity below 60, professionalism below 60, fewer than 30 words, more
\* than 200 words
TriggeredRules(b) ==
  LET speech == Get(b, "speech_features", EmptyDict)
      facial == Get(b, "facial_expressions", EmptyDict)
  IN  {i \in 1..14 :
         \/ i = 1 /\ ~Get(b.content_quality, "has_specific_examples", FALSE)
         \/ i = 2 /\ ~Get(b.content_quality, "has_quantifiable_results", FALSE)
         \/ i = 3 /\ b.content_quality.quality_score < Pts(60)
         \/ i = 4 /\ Get(speech, "filler_word_count", 0) > 3
         \/ i = 5 /\ Get(speech, "stuttering_instances", 0) > 0
         \/ i = 6 /\ Get(speech, "speaking_pace", "unknown") \in {"too slow", "too fast"}
         \/ i = 7 /\ "eye_contact_percentage" \in DOMAIN facial /\ facial.eye_contact_percentage < Pts(50)
         \/ i = 8 /\ "nervousness" \in DOMAIN facial /\ facial.nervousness = "high"
         \/ i = 9 /\ "engagement_score" \in DOMAIN facial /\ facial.engagement_score < Pts(60)
         \/ i = 10 /\ b.relevance.relevance_score < Pts(60)
         \/ i = 11 /\ b.clarity.clarity_score < Pts(60)
         \/ i = 12 /\ b.professionalism.professionalism_score < Pts(60)
         \/ i = 13 /\ b.text_metrics.word_count < 30
         \/ i = 14 /\ b.text_metrics.word_count > 200}

\* the k-th smallest number of a set of numbers
KthSmallest(S, k) == CHOOSE i \in S : Cardinality({j \in S : j < i}) = k - 1

\* C2: the list get_feedback returns has at least 1 and at most 5 strings,
\* whatever rules the bundle triggers
C2_FeedbackLengthBounded ==
  pc = "returned" => (Len(feedback) >= 1 /\ Len(feedback) <= 5)

\* C2 witness: get_feedback returned 5 strings for a bundle that triggers
\* more than 5 rules
C2_Witness ==
  /\ pc = "returned"
  /\ Cardinality(TriggeredRules(analysis[1])) > 5
  /\ Len(feedback) = 5

\* C7: the list is the messages of the triggered rules in the rule order
\* 1..14, cut after the fifth: one string a rule, none repeated, none of a
\* later rule before one of an earlier rule
C7_FirstFiveInRuleOrder ==
  (pc = "returned" /\ TriggeredRules(analysis[1]) # {}) =>
    LET T == TriggeredRules(analysis[1])
    IN  /\ Len(feedback) = Min(5, Cardinality(T))
        /\ \A k \in 1..Len(feedback) :
             feedback[k] = FeedbackRules(analysis[1])[KthSmallest(T, k)].message
        /\ \A j, k \in 1..Len(feedback) : j < k => feedback[j] # feedback[k]

\* C7 witness: seven or more rules are triggered, the 'more detail' rule 3
\* and the length rule 14 among them, and the list stops at the fifth
C7_Witness ==
  /\ pc = "returned"
  /\ Cardinality(TriggeredRules(analysis[1])) >= 7
  /\ {3, 14} \subseteq TriggeredRules(analysis[1])
  /\ Len(feedback) = 5
  /\ feedback[3] = "Provide more detailed responses with concrete details and outcomes"

\* C8: the encouragement is given if and only if no rule is triggered; the
\* list is then that one string, and the encouragement never stands beside a
\* rule's message
C8_EncouragementIffNoRule ==
  pc = "returned" =>
    /\ (Encouragement \in SetOf(feedback)) <=> (TriggeredRules(analysis[1]) = {})
    /\ TriggeredRules(analysis[1]) = {} => feedback = <<Encouragement>>
    /\ Encouragement \in SetOf(feedback) => Len(feedback) = 1

\* C8 witness: get_feedback returned for a bundle that triggers no rule
C8_Witness ==
  /\ pc = "returned"
  /\ TriggeredRules(analysis[1]) = {}
  /\ feedback = <<Encouragement>>

\* ------------------------------------------------------------------------
\* _calculate_overall_score as a function of the seven scores it reads
\* (SpecOverall): the dict holds the designated scores only, and the speech
\* and the facial sub-bundle are absent, empty or scored
\* ------------------------------------------------------------------------

\* the values a designated score takes (in tenths of a point)
Scores == {0, 655, Pts(80), Pts(100)}

\* a sub-bundle that may be absent (None), may lack its score ({}) or holds it
OptionalScore(key) == {None, Some(EmptyDict)} \cup {Some([k \in {key} |-> v]) : v \in Scores}

\* the dict analyze_answer hands to _calculate_overall_score
ScoredBundle(q, r, c, s, p, speech, facial) ==
  [content_quality |-> [quality_score |-> q],
   relevance       |-> [relevance_score |-> r],
   clarity         |-> [clarity_score |-> c],
   sentiment       |-> [confidence_level |-> s],
   professionalism |-> [professionalism_score |-> p],
   overall_score   |-> 0]
  @@ (IF speech = None THEN EmptyDict ELSE [speech_features |-> speech[1]])
  @@ (IF facial = None THEN EmptyDict ELSE [facial_expressions |-> facial[1]])

InitOverall ==
  /\ AnalyzerInit
  /\ answer = None /\ question = None /\ video_data = None /\ audio_duration = 0
  /\ pc = "combined"
  /\ \E q, r, c, s, p \in Scores :
       \E speech \in OptionalScore("fluency_score") :
         \E facial \in OptionalScore("confidence_level") :
           analysis = Some(ScoredBundle(q, r, c, s, p, speech, facial))
  /\ ran = {}
  /\ feedback = <<>>
  /\ raised = ""
  /\ calls = <<>>
  /\ heap = <<>>
  /\ threads = <<>>
  /\ WebIdle

\* analysis['overall_score'] = self._calculate_overall_score(analysis)
CalculateOverallScore ==
  /\ pc = "combined"
  /\ analysis' = Some(WithOverallScore(analysis[1]))
  /\ ran' = ran \cup {"overall_score"}
  /\ pc' = "analyzed"
  /\ UNCHANGED <<filler_words, stop_words, answer, question, video_data, audio_duration,
                 feedback, raised, calls, heap, threads>>
  /\ UNCHANGED web

SpecOverall == InitOverall /\ [][CalculateOverallScore]_vars

\* the seven scores that contribute to the overall score of a bundle, a
\* missing speech or facial score taken as 70
Contributing(b) ==
  LET speech == IF "speech_features" \in DOMAIN b THEN b.speech_features ELSE EmptyDict
      facial == IF "facial_expressions" \in DOMAIN b THEN b.facial_expressions ELSE EmptyDict
  IN  << b.content_quality.quality_score,
         b.relevance.relevance_score,
         b.clarity.clarity_score,
         b.sentiment.confidence_level,
         b.professionalism.professionalism_score,
         IF "fluency_score" \in DOMAIN speech THEN speech.fluency_score ELSE Pts(70),
         IF "confidence_level" \in DOMAIN facial THEN facial.confidence_level ELSE Pts(70) >>

\* C5: the overall score is 0.25 quality + 0.20 relevance + 0.15 clarity +
\* 0.10 sentiment confidence + 0.10 professionalism + 0.15 fluency + 0.05
\* facial confidence, rounded to one decimal, a missing speech or facial
\* sub-bundle counting 70; it lies between the smallest and the largest of
\* the seven scores and is 80.0 when all seven are 80
C5_OverallIsWeightedMean ==
  pc = "analyzed" =>
    LET b  == analysis[1]
        sc == Contributing(b)
    IN  /\ b.overall_score =
             RoundHalfEven(25 * sc[1] + 20 * sc[2] + 15 * sc[3] + 10 * sc[4]
                           + 10 * sc[5] + 15 * sc[6] + 5 * sc[7], 100)
        /\ \E i \in 1..7 : sc[i] <= b.overall_score
        /\ \E i \in 1..7 : sc[i] >= b.overall_score
        /\ (\A i \in 1..7 : sc[i] = Pts(80)) => b.overall_score = Pts(80)

\* C5 witness: the score was calculated for a dict without a facial
\* sub-bundle and with a speech sub-bundle that has no fluency score, both
\* counted 70: 0.25*100 + 0.20*0 + (0.15+0.10+0.10)*80 + 0.20*70 = 67.0
C5_Witness ==
  /\ pc = "analyzed"
  /\ "facial_expressions" \notin DOMAIN analysis[1]
  /\ "speech_features" \in DOMAIN analysis[1]
  /\ analysis[1].speech_features = EmptyDict
  /\ analysis[1].content_quality.quality_score = Pts(100)
  /\ analysis[1].relevance.relevance_score = 0
  /\ analysis[1].clarity.clarity_score = Pts(80)
  /\ analysis[1].sentiment.confidence_level = Pts(80)
  /\ analysis[1].professionalism.professionalism_score = Pts(80)
  /\ analysis[1].overall_score = Pts(67)

\* ------------------------------------------------------------------------
\* Call after call on the one analyzer (SpecRepeat): submit_answer serves an
\* answer, then the next, each with arguments of its own
\* ------------------------------------------------------------------------

\* the most calls of analyze_answer on the analyzer
MaxCalls == 3

\* the answers of the repeated calls: one with and one without filler words,
\* and one of white space
RepeatAnswers ==
  { Join(<< <<"u","m">>, <<"t","h","e","n">> >>),
    Join(<< <<"a","c","h","i","e","v","e","d">>, <<"5","0","%">> >>),
    <<" ">> }

\* the arguments of the repeated calls
RepeatArguments ==
  [answer         : RepeatAnswers,
   question       : {<<"y","o","u","r"," ","P","y","t","h","o","n"," ","e","x","p","e","r","i","e","n","c","e">>},
   video_data     : {None, Some([eye_contact_percentage |-> 7005, dominant_emotion |-> "happy", engagement_score |-> 9996])},
   audio_duration : {60}]

InitRepeat ==
  /\ AnalyzerInit
  /\ \E a \in RepeatArguments :
       /\ answer = a.answer
       /\ question = a.question
       /\ video_data = a.video_data
       /\ audio_duration = a.audio_duration
  /\ pc = "called"
  /\ analysis = None
  /\ ran = {}
  /\ feedback = <<>>
  /\ raised = ""
  /\ calls = <<>>
  /\ heap = <<>>
  /\ threads = <<>>
  /\ WebIdle

\* the next request: analyze_answer is called with new arguments, after the
\* last call returned, whether or not get_feedback was called on its bundle
NewCall ==
  /\ pc \in {"analyzed", "returned", "raised"}
  /\ Len(calls) < MaxCalls
  /\ \E a \in RepeatArguments :
       /\ answer' = a.answer
       /\ question' = a.question
       /\ video_data' = a.video_data
       /\ audio_duration' = a.audio_duration
  /\ pc' = "called"
  /\ analysis' = None
  /\ ran' = {}
  /\ feedback' = <<>>
  /\ raised' = ""
  /\ UNCHANGED <<filler_words, stop_words, calls, heap, threads>>
  /\ UNCHANGED web

NextRepeat == AnalyzeAnswer \/ GetFeedback \/ NewCall

SpecRepeat == InitRepeat /\ [][NextRepeat]_vars

\* C9: two calls of analyze_answer with the same answer, question, video
\* signal and duration return the same bundle, whatever calls were made on
\* the analyzer between them, and no call changes what the analyzer holds
C9_SameArgumentsSameBundle ==
  /\ \A i, j \in 1..Len(calls) :
       calls[i].args = calls[j].args => calls[i].analysis = calls[j].analysis
  /\ filler_words = FillerWords
  /\ stop_words = EnglishStopWords

\* C9 witness: an answer with a filler word was analysed, then an answer
\* without one, then the first answer again, with the same bundle
C9_Witness ==
  /\ Len(calls) = 3
  /\ calls[1].args = calls[3].args
  /\ calls[2].args # calls[1].args
  /\ ~IsBlank(calls[1].args.answer)
  /\ ~IsBlank(calls[2].args.answer)
  /\ calls[1].analysis.speech_features.filler_word_count > 0
  /\ calls[2].analysis.speech_features.filler_word_count = 0
  /\ calls[3].analysis = calls[1].analysis

\* ------------------------------------------------------------------------
\* Requests served at the same time (SpecConc): each thread of the server
\* runs submit_answer on the one shared analyzer; a step of a thread is one
\* analyzer of analyze_answer, the scoring, or get_feedback, and reads the
\* analyzer's lists as they are at that step
\* ------------------------------------------------------------------------

\* the threads serving requests at the same time
NumThreads == 2

Threads == 1..NumThreads

\* the arguments of the concurrent calls
ConcArguments ==
  { [answer |-> Join(<< <<"u","m">>, <<"t","h","e","n">> >>), question |-> <<"y","o","u","r"," ","P","y","t","h","o","n"," ","e","x","p","e","r","i","e","n","c","e">>,
     video_data |-> None, audio_duration |-> 0],
    [answer |-> Join(<< <<"u","m">>, <<"t","h","e","n">> >>), question |-> <<"y","o","u","r"," ","P","y","t","h","o","n"," ","e","x","p","e","r","i","e","n","c","e">>,
     video_data |-> Some([eye_contact_percentage |-> 7005, dominant_emotion |-> "happy", engagement_score |-> 9996]), audio_duration |-> 60],
    [answer |-> Join(<< <<"a","c","h","i","e","v","e","d">>, <<"5","0","%">> >>), question |-> <<"y","o","u","r"," ","P","y","t","h","o","n"," ","e","x","p","e","r","i","e","n","c","e">>,
     video_data |-> None, audio_duration |-> 0],
    [answer |-> <<" ">>, question |-> <<"y","o","u","r"," ","P","y","t","h","o","n"," ","e","x","p","e","r","i","e","n","c","e">>,
     video_data |-> None, audio_duration |-> 0] }

\* the i-th analyzer analyze_answer calls, on the lists of the analyzer as
\* they are when it is called
RunAnalyzer(i, fillers, stops, a) ==
  CASE i = 1 -> _analyze_text_metrics(stops, a.answer)
    [] i = 2 -> _analyze_content_quality(a.answer, a.question)
    [] i = 3 -> _analyze_sentiment(a.answer)
    [] i = 4 -> _analyze_relevance(stops, a.answer, a.question)
    [] i = 5 -> _analyze_clarity(a.answer)
    [] i = 6 -> _analyze_professionalism(a.answer)
    [] i = 7 -> _analyze_speech_features(fillers, a.answer, a.audio_duration)
    [] i = 8 -> FacialAnalysis(a.video_data)

\* analysis = {**text_analysis, 'speech_features': ..., 'facial_expressions': ...,
\* 'overall_score': 0}
Combine(results) ==
  [text_metrics       |-> results[1],
   content_quality    |-> results[2],
   sentiment          |-> results[3],
   relevance          |-> results[4],
   clarity            |-> results[5],
   professionalism    |-> results[6],
   speech_features    |-> results[7],
   facial_expressions |-> results[8],
   overall_score      |-> 0]

InitConc ==
  /\ AnalyzerInit
  /\ answer = None /\ question = None /\ video_data = None /\ audio_duration = 0
  /\ pc = "serving"
  /\ analysis = None
  /\ ran = {}
  /\ feedback = <<>>
  /\ raised = ""
  /\ calls = <<>>
  /\ heap = <<>>
  /\ threads \in [Threads -> {[args |-> a, pc |-> "called", results |-> <<>>, analysis |-> None,
                               feedback |-> <<>>, raised |-> ""] : a \in ConcArguments}]
  /\ WebIdle

\* if not answer or not answer.strip(): return self._get_empty_analysis()
TEnter(t) ==
  /\ threads[t].pc = "called"
  /\ threads' = [threads EXCEPT ![t] =
                   IF IsBlank(@.args.answer)
                   THEN [@ EXCEPT !.pc = "analyzed", !.analysis = Some(_get_empty_analysis)]
                   ELSE [@ EXCEPT !.pc = "analyzing"]]
  /\ UNCHANGED <<filler_words, stop_words, answer, question, video_data, audio_duration,
                 pc, analysis, ran, feedback, raised, calls, heap>>
  /\ UNCHANGED web

\* a mutant of TAnalyze: _analyze_speech_features keeps, as the filler words
\* of the analyzer, only those it found in the answer
TAnalyze_NarrowsFillers(t) ==
  /\ threads[t].pc = "analyzing"
  /\ Len(threads[t].results) < 8
  /\ threads' = [threads EXCEPT ![t].results =
                   Append(@, RunAnalyzer(Len(@) + 1, filler_words, stop_words, threads[t].args))]
  /\ filler_words' = IF Len(threads[t].results) + 1 = 7
                     THEN SelectSeq(filler_words, LAMBDA f : StrIn(f, StrLower(threads[t].args.answer)))
                     ELSE filler_words
  /\ UNCHANGED <<stop_words, answer, question, video_data, audio_duration,
                 pc, analysis, ran, feedback, raised, calls, heap>>
  /\ UNCHANGED web

\* the next analyzer of the thread's call of analyze_answer
TAnalyze(t) ==
  /\ threads[t].pc = "analyzing"
  /\ Len(threads[t].results) < 8
  /\ threads' = [threads EXCEPT ![t].results =
                   Append(@, RunAnalyzer(Len(@) + 1, filler_words, stop_words, threads[t].args))]
  /\ UNCHANGED <<filler_words, stop_words, answer, question, video_data, audio_duration,
                 pc, analysis, ran, feedback, raised, calls, heap>>
  /\ UNCHANGED web

\* the analyses are combined, the overall score is set and the bundle returned
TScore(t) ==
  /\ threads[t].pc = "analyzing"
  /\ Len(threads[t].results) = 8
  /\ threads' = [threads EXCEPT ![t] =
                   [@ EXCEPT !.pc = "analyzed",
                             !.analysis = Some(WithOverallScore(Combine(threads[t].results)))]]
  /\ UNCHANGED <<filler_words, stop_words, answer, question, video_data, audio_duration,
                 pc, analysis, ran, feedback, raised, calls, heap>>
  /\ UNCHANGED web

\* feedback = answer_analyzer.get_feedback(analysis)
TFeedback(t) ==
  /\ threads[t].pc = "analyzed"
  /\ threads' = [threads EXCEPT ![t] =
                   [@ EXCEPT !.pc = IF get_feedback(threads[t].analysis[1]).raises = ""
                                    THEN "returned" ELSE "raised",
                             !.feedback = get_feedback(threads[t].analysis[1]).value,
                             !.raised = get_feedback(threads[t].analysis[1]).raises]]
  /\ UNCHANGED <<filler_words, stop_words, answer, question, video_data, audio_duration,
                 pc, analysis, ran, feedback, raised, calls, heap>>
  /\ UNCHANGED web

NextConc == \E t \in Threads : TEnter(t) \/ TAnalyze(t) \/ TScore(t) \/ TFeedback(t)

SpecConc == InitConc /\ [][NextConc]_vars

\* what the call of a thread returns when it runs alone on the analyzer
Alone(a) ==
  analyze_answer(FillerWords, EnglishStopWords, a.answer, a.question, a.video_data, a.audio_duration)

\* C10: under every interleaving of the threads' steps, each thread gets from
\* analyze_answer and from get_feedback what it gets when it runs alone, and
\* the filler words and the stop words of the shared analyzer are never
\* changed
C10_ConcurrentCallsAsAlone ==
  /\ filler_words = FillerWords
  /\ stop_words = EnglishStopWords
  /\ \A t \in DOMAIN threads :
       /\ threads[t].pc \in {"analyzed", "returned", "raised"} =>
            threads[t].analysis = Some(Alone(threads[t].args))
       /\ threads[t].pc \in {"returned", "raised"} =>
            /\ threads[t].feedback = get_feedback(Alone(threads[t].args)).value
            /\ threads[t].raised = get_feedback(Alone(threads[t].args)).raises

\* C10 witness: thread 1 analysed an answer with a filler word and got its
\* feedback while thread 2 was part-way through the analyzers of another
\* answer
C10_Witness ==
  /\ DOMAIN threads # {}
  /\ threads[1].pc = "returned"
  /\ threads[1].analysis[1].speech_features.filler_word_count > 0
  /\ threads[2].pc = "analyzing"
  /\ Len(threads[2].results) \in 1..7
  /\ threads[2].args.answer # threads[1].args.answer

\* ------------------------------------------------------------------------
\* Properties of the bundles in memory (SpecRepeat)
\* ------------------------------------------------------------------------

\* C11: every call of analyze_answer returns a dict of its own, the
\* placeholder of an empty answer included, so no two calls share a bundle;
\* and a bundle stays as it was returned: get_feedback changes no field of
\* the bundle it is given
C11_BundleFreshAndUnchanged ==
  /\ \A i, j \in 1..Len(calls) : i # j => calls[i].ref # calls[j].ref
  /\ \A i \in 1..Len(calls) :
       /\ calls[i].ref \in 1..Len(heap)
       /\ heap[calls[i].ref] = calls[i].analysis
  /\ (pc \in {"returned", "raised"} /\ calls # <<>>) =>
       analysis = Some(calls[Len(calls)].analysis)

\* C11 witness: two empty answers got two placeholders, then get_feedback
\* returned for the bundle of a third answer, which is in memory as it was
\* returned
C11_Witness ==
  /\ Len(calls) = 3
  /\ calls[1].analysis = _get_empty_analysis
  /\ calls[2].analysis = _get_empty_analysis
  /\ calls[1].ref # calls[2].ref
  /\ pc = "returned"
  /\ Len(feedback) > 0
  /\ heap[calls[3].ref] = analysis[1]

\* ------------------------------------------------------------------------
\* More properties of one call (Spec)
\* ------------------------------------------------------------------------

\* the facial sub-bundle due for a supplied video signal v, each of its
\* three metrics read from v or, when v lacks it, taken as its default:
\* eye_contact_percentage 60, dominant_emotion 'neutral', engagement_score 70
FacialWithDefaults(v) ==
  LET eye == IF "eye_contact_percentage" \in DOMAIN v THEN v.eye_contact_percentage ELSE 6000
      emo == IF "dominant_emotion" \in DOMAIN v THEN v.dominant_emotion ELSE "neutral"
      eng == IF "engagement_score" \in DOMAIN v THEN v.engagement_score ELSE 7000
      adj == IF emo \in {"happy", "focused"} THEN 1000
             ELSE IF emo \in {"sad", "worried"} THEN -1000 ELSE 0
  IN  [confidence_level       |-> Round1(Max(0, Min(10000, eng + adj))),
       nervousness            |-> IF eng < 5000 THEN "high" ELSE IF eng < 7000 THEN "moderate" ELSE "low",
       eye_contact            |-> IF eye > 7000 THEN "excellent" ELSE IF eye > 5000 THEN "good"
                                  ELSE "needs improvement",
       eye_contact_percentage |-> Round1(eye),
       dominant_emotion       |-> emo,
       engagement_score       |-> Round1(eng)]

\* C12: when a video signal is supplied, whatever subset of its keys it
\* lacks, analyze_answer returns a whole bundle whose facial sub-bundle is
\* computed from the fields present and the defaults of those missing
C12_MissingVideoKeysDefault ==
  (Analyzed /\ ~IsBlank(answer) /\ video_data # None) =>
    /\ DOMAIN analysis[1] = {"text_metrics", "content_quality", "sentiment", "relevance",
                             "clarity", "professionalism", "speech_features",
                             "facial_expressions", "overall_score"}
    /\ analysis[1].facial_expressions = FacialWithDefaults(video_data[1])

\* ------------------------------------------------------------------------
\* Answers chosen for what each analyzer looks for (SpecTexts): one call of
\* analyze_answer and get_feedback on each, as in Spec
\* ------------------------------------------------------------------------

\* the most words of an answer that is timed
MaxTokens == 20

\* the words of ws that keep marks, in their order
Chosen(ws, keep) ==
  LET F[i \in 0..Len(ws)] ==
        IF i = 0 THEN <<>> ELSE IF keep[i] THEN Append(F[i - 1], ws[i]) ELSE F[i - 1]
  IN  F[Len(ws)]

\* n times the word w
Repeat(w, n) == [i \in 1..n |-> w]

\* "What is your experience with Python?"
PythonQuestion == <<"W","h","a","t"," ","i","s"," ","y","o","u","r"," ","e","x","p","e","r","i","e","n","c","e"," ","w","i","t","h"," ","P","y","t","h","o","n","?">>

\* one call, by its arguments
Case(a, q, d) == [answer |-> a, question |-> q, video_data |-> None, audio_duration |-> d]

\* answers for the fluency score: no, one or four filler words; no or one
\* stutter; no pause mark, "..", "...", "...." or three times "..."
FluencyAnswers ==
  { Join(<<f, s, p>>) :
      f \in {<<"f","i","n","e">>, <<"u","m">>, <<"u","m"," ","u","h"," ","l","i","k","e"," ","s","o">>},
      s \in {<<"w","a","i","t">>, <<"w","a","i","t"," ","w","a","i","t"," ","p","l","e","a","s","e">>},
      p \in {<<"d","o","n","e">>, <<"d","o","n","e",".",".">>, <<"d","o","n","e",".",".",".">>, <<"d","o","n","e",".",".",".",".">>, <<"d","o","n","e",".",".","."," ","a","n","d",".",".","."," ","t","h","e","n",".",".",".">>} }

\* answers of 1 to MaxTokens words, timed, for the speaking rate
PaceAnswers == {Join(Repeat(<<"g","o">>, n)) : n \in 1..MaxTokens}

\* audio_duration of the timed answers, in seconds
PaceDurations == {-1, 0, 1, 3, 6, 12}

\* markers of the content quality, one for each thing the analyzer looks
\* for: a number, an example, a quantification, situation, task, action,
\* result; in two wordings
QualityMarkers ==
  { << <<"7">>, <<"s","p","e","c","i","f","i","c","a","l","l","y">>, <<"i","m","p","r","o","v","e","d">>, <<"c","o","n","t","e","x","t">>, <<"g","o","a","l">>, <<"d","i","d">>, <<"o","u","t","c","o","m","e">> >>,
    << <<"Q","3">>, <<"S","u","c","h"," ","A","s">>, <<"d","o","u","b","l","e","d">>, <<"B","a","c","k","g","r","o","u","n","d">>, <<"C","H","A","L","L","E","N","G","E">>, <<"I","m","p","l","e","m","e","n","t","e","d">>, <<"i","m","p","a","c","t">> >> }

\* answers with every subset of the markers
QualityAnswers ==
  { Join(<<<<"w","o","r","k">>>> \o Chosen(ms, keep)) : ms \in QualityMarkers, keep \in [1..7 -> BOOLEAN] }

\* transition words: none, one, one twice, several, more than three, one
\* inside a longer word
TransitionParts ==
  { <<>>, << <<"t","h","e","n">> >>, << <<"t","h","e","n">>, <<"t","h","e","n">> >>, << <<"T","h","e","n">>, <<"n","e","x","t">> >>, << <<"f","i","r","s","t">>, <<"t","h","e","n">>, <<"f","i","n","a","l","l","y">> >>,
    << <<"f","i","r","s","t">>, <<"s","e","c","o","n","d">>, <<"t","h","e","n">>, <<"n","e","x","t">> >>, << <<"n","e","x","t","s","t","e","p">> >> }

\* answers for the clarity score: the transition words, then 0, 5, 11 or 25
\* more words in one sentence, or 11 more words in two sentences
ClarityAnswers ==
  { Join(t \o Repeat(<<"g","o">>, n)) : t \in TransitionParts, n \in {0, 5, 11, 25} } \cup
  { Join(t \o Repeat(<<"g","o">>, 5) \o <<<<"g","o",".">>>> \o Repeat(<<"g","o">>, 5)) : t \in TransitionParts }

\* professional phrases: none, one, one twice, two, one in capitals, seven,
\* one inside a longer word
ProfessionalParts ==
  { <<>>, << <<"l","e","d">> >>, << <<"l","e","d">>, <<"l","e","d">> >>, << <<"m","a","n","a","g","e","d">>, <<"l","e","d">> >>, << <<"E","x","p","e","r","i","e","n","c","e">> >>,
    << <<"e","x","p","e","r","i","e","n","c","e">>, <<"r","e","s","p","o","n","s","i","b","l","e"," ","f","o","r">>, <<"a","c","h","i","e","v","e","d">>, <<"d","e","v","e","l","o","p","e","d">>, <<"i","m","p","l","e","m","e","n","t","e","d">>, <<"c","o","l","l","a","b","o","r","a","t","e","d">>, <<"m","a","n","a","g","e","d">> >>,
    << <<"h","a","n","d","l","e","d">> >> }

\* casual words: none, one, one twice, two, all eight, one inside a longer
\* word
CasualParts ==
  { <<>>, << <<"l","i","k","e">> >>, << <<"l","i","k","e">>, <<"l","i","k","e">> >>, << <<"y","e","a","h">>, <<"s","t","u","f","f">> >>,
    << <<"g","o","n","n","a">>, <<"w","a","n","n","a">>, <<"k","i","n","d","a">>, <<"s","o","r","t","a">>, <<"y","e","a","h">>, <<"s","t","u","f","f">>, <<"t","h","i","n","g","s">>, <<"l","i","k","e">> >>, << <<"l","i","k","e","l","y">> >> }

\* answers for the professionalism score
ProfessionalismAnswers ==
  { Join(<<<<"w","o","r","k">>>> \o p \o c) : p \in ProfessionalParts, c \in CasualParts }

\* questions with 0, 0, 2, 4, 7 and 10 content words
RelevanceQuestions ==
  { <<>>, <<"i","s"," ","i","t","?">>, PythonQuestion,
    <<"D","e","s","c","r","i","b","e"," ","y","o","u","r"," ","P","y","t","h","o","n"," ","t","e","s","t","i","n","g"," ","e","x","p","e","r","i","e","n","c","e">>,
    <<"p","y","t","h","o","n"," ","j","a","v","a"," ","r","u","s","t"," ","r","u","b","y"," ","s","w","i","f","t"," ","k","o","t","l","i","n"," ","s","c","a","l","a">>,
    <<"p","y","t","h","o","n"," ","j","a","v","a"," ","r","u","s","t"," ","r","u","b","y"," ","s","w","i","f","t"," ","k","o","t","l","i","n"," ","s","c","a","l","a"," ","p","e","r","l"," ","l","u","a"," ","d","a","r","t">> }

\* answers that share 0 to 4 content words with the questions
RelevanceAnswers ==
  { <<"w","o","r","k">>, <<"P","y","t","h","o","n">>, <<"m","y"," ","e","x","p","e","r","i","e","n","c","e"," ","w","i","t","h"," ","p","y","t","h","o","n">>, <<"p","y","t","h","o","n"," ","j","a","v","a">>,
    <<"P","y","t","h","o","n",","," ","J","a","v","a"," ","a","n","d"," ","R","u","s","t",".">>, <<"I"," ","d","e","s","c","r","i","b","e"," ","t","e","s","t","i","n","g">>, <<"p","y","t","h","o","n"," ","p","y","t","h","o","n"," ","t","e","s","t","i","n","g"," ","e","x","p","e","r","i","e","n","c","e"," ","d","e","s","c","r","i","b","e">> }

\* the calls of SpecTexts
TextCases ==
  {Case(a, PythonQuestion, d) : a \in FluencyAnswers, d \in {0, 60}}
  \cup {Case(a, PythonQuestion, d) : a \in PaceAnswers, d \in PaceDurations}
  \cup {Case(a, PythonQuestion, 0) : a \in QualityAnswers \cup ClarityAnswers \cup ProfessionalismAnswers}
  \cup {Case(a, q, 0) : a \in RelevanceAnswers, q \in RelevanceQuestions}

InitTexts ==
  /\ AnalyzerInit
  /\ \E c \in {c \in TextCases : c.answer # <<>>} :
       /\ answer = c.answer
       /\ question = c.question
       /\ video_data = c.video_data
       /\ audio_duration = c.audio_duration
  /\ pc = "called"
  /\ analysis = None
  /\ ran = {}
  /\ feedback = <<>>
  /\ raised = ""
  /\ calls = <<>>
  /\ heap = <<>>
  /\ threads = <<>>
  /\ WebIdle

SpecTexts == InitTexts /\ [][Next]_vars

\* ------------------------------------------------------------------------
\* Properties of the analyzers on the chosen answers (SpecTexts)
\* ------------------------------------------------------------------------

\* where the runs of full stops of a text start
DotRunStarts(s) == {i \in 1..Len(s) : s[i] = "." /\ (i = 1 \/ s[i - 1] # ".")}

\* the length of the run of full stops that starts at i
DotRunLen(s, i) ==
  LET j == CHOOSE j \in i..Len(s) :
             /\ \A k \in i..j : s[k] = "."
             /\ (j = Len(s) \/ s[j + 1] # ".")
  IN  j - i + 1

\* the speech sub-bundle of the call
Speech == analysis[1].speech_features

\* C13: an answer with 4 filler occurrences, 1 stutter and exactly one "..."
\* (its only full stops), at an unknown rate, has fluency_score
\* 100 - 20 - 10 - 5 = 65
C13_OneEllipsisCostsFive ==
  (/\ Analyzed /\ ~IsBlank(answer)
   /\ Speech.filler_word_count = 4
   /\ Speech.stuttering_instances = 1
   /\ \E i \in DotRunStarts(answer) : DotRunStarts(answer) = {i} /\ DotRunLen(answer, i) = 3
   /\ Speech.speaking_pace = "unknown")
  => Speech.fluency_score = Pts(65)

\* C14: the pace names the interval of the rate (words a minute, 0 without a
\* duration): 'unknown' for 0, 'too slow' below 100, 'slow' from 100 to below
\* 130, 'optimal' from 130 to below 160, 'fast' from 160 to below 190, 'too
\* fast' from 190 on; and the rate is 0 exactly when the duration is not
\* positive
C14_PacePartitionsRate ==
  (Analyzed /\ ~IsBlank(answer)) =>
    LET n == analysis[1].text_metrics.word_count
        d == audio_duration
        timed == d > 0 /\ n > 0
    IN  /\ (Speech.speaking_pace = "unknown")  <=> ~timed
        /\ (Speech.speaking_pace = "too slow") <=> (timed /\ 60 * n < 100 * d)
        /\ (Speech.speaking_pace = "slow")     <=> (timed /\ 100 * d <= 60 * n /\ 60 * n < 130 * d)
        /\ (Speech.speaking_pace = "optimal")  <=> (timed /\ 130 * d <= 60 * n /\ 60 * n < 160 * d)
        /\ (Speech.speaking_pace = "fast")     <=> (timed /\ 160 * d <= 60 * n /\ 60 * n < 190 * d)
        /\ (Speech.speaking_pace = "too fast") <=> (timed /\ 190 * d <= 60 * n)
        /\ (Speech.speaking_rate = 0) <=> (d <= 0)
        /\ d > 0 => Speech.speaking_rate = RoundHalfEven(600 * n, d)

\* C14 witness: 19 words in 6 seconds are 190 words a minute, 'too fast'
C14_Witness ==
  /\ Analyzed
  /\ analysis[1].text_metrics.word_count = 19
  /\ audio_duration = 6
  /\ Speech.speaking_rate = Pts(190)
  /\ Speech.speaking_pace = "too fast"

\* one of the keywords of a group occurs in the lowercased answer
GroupPresent(keywords) == \E k \in 1..Len(keywords) : StrIn(keywords[k], StrLower(answer))

\* C15: uses_star_method is true exactly when each of the four groups of
\* keywords (situation, task, action, result) has a keyword that occurs in
\* the lowercased answer; one group missing makes it false
C15_StarNeedsAllFourGroups ==
  (Analyzed /\ ~IsBlank(answer)) =>
    (analysis[1].content_quality.uses_star_method
       <=> /\ GroupPresent(SituationWords)
           /\ GroupPresent(TaskWords)
           /\ GroupPresent(ActionWords)
           /\ GroupPresent(ResultWords))

\* C15 witness: an answer in capitals and lower case with a keyword of each
\* group, and uses_star_method true
C15_Witness ==
  /\ Analyzed
  /\ StrIn(<<"B","a","c","k","g","r","o","u","n","d"," ","C","H","A","L","L","E","N","G","E"," ","I","m","p","l","e","m","e","n","t","e","d"," ","i","m","p","a","c","t">>, answer)
  /\ analysis[1].content_quality.uses_star_method

\* the content words of a text: its lowercased alphabetic tokens that are no
\* stop words
ContentWords(text) == ContentWordSet(stop_words, text)

C17_PauseIndicatorsCountBoth ==
  (Analyzed /\ ~IsBlank(answer)) =>
    LET runs   == DotRunStarts(answer)
        pauses == Cardinality({<<i, k>> \in runs \X (1..Len(answer)) :
                                 k <= (DotRunLen(answer, i) \div 3) + (DotRunLen(answer, i) \div 2)})
    IN  /\ Speech.pause_indicators = pauses
        /\ (\A i \in runs : DotRunLen(answer, i) = 3) =>
             Speech.pause_indicators = 2 * Cardinality(runs)
        /\ Speech.speaking_pace = "unknown" =>
             Speech.fluency_score =
               Pts(100 - Min(5 * Speech.filler_word_count, 30)
                       - Min(10 * Speech.stuttering_instances, 20)
                       - Min(5 * Speech.pause_indicators, 15))

\* C17 witness: three times "..." are 6 pause indicators and cost 15 points
C17_Witness ==
  /\ Analyzed
  /\ Cardinality(DotRunStarts(answer)) = 3
  /\ \A i \in DotRunStarts(answer) : DotRunLen(answer, i) = 3
  /\ Speech.pause_indicators = 6
  /\ Speech.filler_word_count = 0
  /\ Speech.stuttering_instances = 0
  /\ Speech.speaking_pace = "unknown"
  /\ Speech.fluency_score = Pts(85)

\* 1 when the condition holds, else 0
Indicator(b) == IF b THEN 1 ELSE 0

\* C18: quality_score is 50, plus 10 for a number, 15 for an example, 15 for
\* a quantification, 5 each for situation, task and action, 10 for a result,
\* capped at 100: the sum reaches 115 and the score is then exactly 100, and
\* it is never below 50
C18_QualityScoreCappedSum ==
  (Analyzed /\ ~IsBlank(answer)) =>
    LET cq  == analysis[1].content_quality
        sum == 50 + 10 * Indicator(\E i \in 1..Len(answer) : answer[i] \in Digits)
                  + 15 * Indicator(GroupPresent(ExamplePhrases))
                  + 15 * Indicator(GroupPresent(QuantificationWords))
                  + 5 * Indicator(GroupPresent(SituationWords))
                  + 5 * Indicator(GroupPresent(TaskWords))
                  + 5 * Indicator(GroupPresent(ActionWords))
                  + 10 * Indicator(GroupPresent(ResultWords))
    IN  /\ cq.quality_score = Pts(Min(100, sum))
        /\ sum = 115 => cq.quality_score = Pts(100)
        /\ cq.quality_score >= Pts(50)

\* C18 witness: an answer with all seven markers, whose sum is 115, scores
\* 100
C18_Witness ==
  /\ Analyzed
  /\ \E i \in 1..Len(answer) : answer[i] \in Digits
  /\ GroupPresent(ExamplePhrases) /\ GroupPresent(QuantificationWords)
  /\ GroupPresent(SituationWords) /\ GroupPresent(TaskWords)
  /\ GroupPresent(ActionWords) /\ GroupPresent(ResultWords)
  /\ analysis[1].content_quality.quality_score = Pts(100)

\* the occurrences of the words of a list in the lowercased answer, a word
\* that occurs k times counted k times
Occurrences(words) == SumSeq([k \in 1..Len(words) |-> StrCount(StrLower(answer), words[k])])

\* the words of a list that occur in the lowercased answer, each counted once
WordsPresent(words) == Cardinality({k \in 1..Len(words) : StrIn(words[k], StrLower(answer))})

\* the clarity score due for a transition count and the numbers of words and
\* sentences of the answer: 60 + min(8 * count, 24), plus 16 when the average
\* sentence length is between 10 and 25, minus 10 when it is below 5,
\* clamped to 0..100
ClarityDue(count, nwords, nsentences) ==
  LET adj == IF 10 * nsentences < nwords /\ nwords < 25 * nsentences THEN 16
             ELSE IF nwords < 5 * nsentences THEN -10 ELSE 0
  IN  Pts(Max(0, Min(100, 60 + Min(8 * count, 24) + adj)))

\* C19: the transition count is the number of occurrences of the ten
\* transition words in the lowercased answer, a word that occurs k times
\* counting k; clarity_score is 60 + min(8 * count, 24) + the adjustment for
\* the average sentence length, clamped; has_structure is count > 0
C19_TransitionOccurrences ==
  (Analyzed /\ ~IsBlank(answer)) =>
    LET count == Occurrences(transitions)
        tm    == analysis[1].text_metrics
        cl    == analysis[1].clarity
    IN  /\ cl.transition_words = count
        /\ cl.clarity_score = ClarityDue(count, tm.word_count, tm.sentence_count)
        /\ cl.has_structure <=> (count > 0)

\* C19, amended: the transition count is the number of the ten transition
\* words that occur in the lowercased answer, each counted once however
\* often it occurs; the score and has_structure follow from that count as
\* stated
C19_TransitionWordsPresent ==
  (Analyzed /\ ~IsBlank(answer)) =>
    LET count == WordsPresent(transitions)
        tm    == analysis[1].text_metrics
        cl    == analysis[1].clarity
    IN  /\ cl.transition_words = count
        /\ cl.clarity_score = ClarityDue(count, tm.word_count, tm.sentence_count)
        /\ cl.has_structure <=> (count > 0)

\* C19 witness: 'then' occurs twice, with 11 more words in one sentence: the
\* count is 1 and the score 60 + 8 + 16
C19_Witness ==
  /\ Analyzed
  /\ Occurrences(transitions) = 2
  /\ analysis[1].text_metrics.word_count = 13
  /\ analysis[1].clarity.transition_words = 1
  /\ analysis[1].clarity.has_structure
  /\ analysis[1].clarity.clarity_score = Pts(84)

\* the professionalism score due for the two counts:
\* 70 + 5 * professional - 10 * casual, clamped to 0..100
ProfessionalismDue(professional, casual) == Pts(Max(0, Min(100, 70 + 5 * professional - 10 * casual)))

\* C20: professional_count and casual_count are the numbers of occurrences of
\* the professional phrases and of the casual words in the lowercased answer,
\* a phrase that occurs k times counting k, and professionalism_score is
\* 70 + 5 * professional_count - 10 * casual_count clamped to 0..100
C20_ProfessionalOccurrences ==
  (Analyzed /\ ~IsBlank(answer)) =>
    LET pr == analysis[1].professionalism
    IN  /\ pr.professional_language = Occurrences(professional_phrases)
        /\ pr.casual_language = Occurrences(casual_words)
        /\ pr.professionalism_score = ProfessionalismDue(Occurrences(professional_phrases), Occurrences(casual_words))

\* C20, amended: professional_count and casual_count are the numbers of the
\* professional phrases and of the casual words that occur in the lowercased
\* answer, each counted once however often it occurs; the score follows from
\* the two counts as stated
C20_ProfessionalPhrasesPresent ==
  (Analyzed /\ ~IsBlank(answer)) =>
    LET pr == analysis[1].professionalism
    IN  /\ pr.professional_language = WordsPresent(professional_phrases)
        /\ pr.casual_language = WordsPresent(casual_words)
        /\ pr.professionalism_score = ProfessionalismDue(WordsPresent(professional_phrases), WordsPresent(casual_words))

\* C20 witness: 'led' and 'like' occur twice each and count once each:
\* 70 + 5 - 10
C20_Witness ==
  /\ Analyzed
  /\ Occurrences(professional_phrases) = 2
  /\ Occurrences(casual_words) = 2
  /\ analysis[1].professionalism.professional_language = 1
  /\ analysis[1].professionalism.casual_language = 1
  /\ analysis[1].professionalism.professionalism_score = Pts(65)

\* ------------------------------------------------------------------------
\* analyze_answer and get_feedback on one answer with video signals on, next
\* to and between the thresholds of _analyze_facial_expressions (metrics in
\* hundredths of a point), complete and with keys missing
\* ------------------------------------------------------------------------

EngagementScores == {0, 500, 4995, 5000, 5005, 5833, 6995, 7000, 7005, 9000, 9500, 9996, 10000}

Emotions == {"happy", "focused", "sad", "worried", "neutral", "surprised"}

EyeContactPercentages == {0, 4995, 5000, 5005, 6667, 7000, 7005, 10000}

SuppliedSignals ==
  {Some([eye_contact_percentage |-> p, dominant_emotion |-> m, engagement_score |-> g]) :
      p \in EyeContactPercentages, m \in Emotions, g \in EngagementScores}
  \cup {Some([engagement_score |-> g]) : g \in EngagementScores}
  \cup {Some([dominant_emotion |-> m]) : m \in Emotions}
  \cup {Some([eye_contact_percentage |-> p]) : p \in EyeContactPercentages}

InitVideo ==
  /\ AnalyzerInit
  /\ answer \in {<<"w","o","r","k">>, <<"I"," ","l","e","d"," ","t","e","a","m","s">>}
  /\ question = PythonQuestion
  /\ video_data \in SuppliedSignals
  /\ audio_duration \in {0, 60}
  /\ pc = "called"
  /\ analysis = None
  /\ ran = {}
  /\ feedback = <<>>
  /\ raised = ""
  /\ calls = <<>>
  /\ heap = <<>>
  /\ threads = <<>>
  /\ WebIdle

SpecVideo == InitVideo /\ [][Next]_vars

\* what the scorer reads from a supplied signal
EngagementOf(v) == Get(v, "engagement_score", 7000)
EmotionOf(v) == Get(v, "dominant_emotion", "neutral")
EyeContactOf(v) == Get(v, "eye_contact_percentage", 6000)

\* engagement, plus 10 for happy or focused, minus 10 for sad or worried,
\* clamped to 0..100 (hundredths)
ConfidenceDue(v) ==
  LET shift == IF EmotionOf(v) \in {"happy", "focused"} THEN 1000
               ELSE IF EmotionOf(v) \in {"sad", "worried"} THEN -1000 ELSE 0
  IN  Max(0, Min(10000, EngagementOf(v) + shift))

\* the nervousness and eye-contact categories of a supplied signal
CategoriesDue(f, v) ==
  /\ (f.nervousness = "high") <=> (EngagementOf(v) < 5000)
  /\ (f.nervousness = "moderate") <=> (5000 <= EngagementOf(v) /\ EngagementOf(v) < 7000)
  /\ (f.nervousness = "low") <=> (EngagementOf(v) >= 7000)
  /\ (f.eye_contact = "excellent") <=> (EyeContactOf(v) > 7000)
  /\ (f.eye_contact = "good") <=> (5000 < EyeContactOf(v) /\ EyeContactOf(v) <= 7000)
  /\ (f.eye_contact = "needs improvement") <=> (EyeContactOf(v) <= 5000)

\* C21: for a supplied video signal, nervousness is 'high' iff
\* engagement < 50, 'moderate' iff 50 <= engagement < 70, 'low' iff
\* engagement >= 70; confidence_level is engagement plus 10 (happy, focused)
\* or minus 10 (sad, worried), clamped to 0..100; eye_contact is 'excellent'
\* iff pct > 70, 'good' iff 50 < pct <= 70, 'needs improvement' iff pct <= 50
\* (confidence_level is in tenths, the signal in hundredths)
C21_FacialCategoriesAndConfidence ==
  (Analyzed /\ ~IsBlank(answer) /\ Truthy(video_data)) =>
    LET f == analysis[1].facial_expressions
        v == video_data[1]
    IN  /\ CategoriesDue(f, v)
        /\ 10 * f.confidence_level = ConfidenceDue(v)

\* C21, amended: the categories are as stated, and confidence_level is the
\* clamped value rounded to one decimal
C21_FacialCategoriesAndRoundedConfidence ==
  (Analyzed /\ ~IsBlank(answer) /\ Truthy(video_data)) =>
    LET f == analysis[1].facial_expressions
        v == video_data[1]
    IN  /\ CategoriesDue(f, v)
        /\ f.confidence_level = RoundHalfEven(ConfidenceDue(v), 10)

\* C21 witness: engagement 58.33 on a happy face with eye contact exactly 70:
\* 'moderate', 'good', confidence 68.3
C21_Witness ==
  /\ Analyzed
  /\ Truthy(video_data)
  /\ video_data[1] = [eye_contact_percentage |-> 7000, dominant_emotion |-> "happy", engagement_score |-> 5833]
  /\ analysis[1].facial_expressions.nervousness = "moderate"
  /\ analysis[1].facial_expressions.eye_contact = "good"
  /\ analysis[1].facial_expressions.confidence_level = 683

\* ------------------------------------------------------------------------
\* The web application (src/app_fixed.py): the sessions storage and the
\* handlers that read and write it, each request served to its end before
\* the next one (SpecWeb). A session is kept with its questions, answers and
\* current_question; resume_text, jd_text, created_at and the timestamp of
\* an answer are written once and never read by these handlers, and are
\* left out
\* ------------------------------------------------------------------------

\* the most questions a session is generated with
MaxQuestions == 2

\* str(uuid.uuid4()) of the sessions created
SessionIds == {"s1", "s2"}

\* a session id no session has: the requests of a client that kept none
UnknownSession == "s0"

\* the text of the i-th generated question
QuestionText(i) == PythonQuestion \o Repeat("?", i - 1)

\* what generate_resume_specific_questions returns: a list of questions, of
\* any length the model's reply was parsed into
GeneratedQuestions ==
  {[i \in 1..n |-> [question |-> QuestionText(i)]] : n \in 0..MaxQuestions}

\* request.get_json() of submit_answer: None without a JSON body, else the
\* dict sent: {}, a whitespace answer, and an answer with a duration
Bodies ==
  { None,
    Some(EmptyDict),
    Some([answer |-> <<" ", " ">>]),
    Some([answer |-> <<"I"," ","l","e","d"," ","t","e","a","m","s">>, duration |-> 30]) }

\* interview_sessions[session_id] = value
SetItem(d, k, value) == [x \in DOMAIN d \cup {k} |-> IF x = k THEN value ELSE d[x]]

\* jsonify(body), status
Response(route, status, body) == [route |-> route, status |-> status, body |-> body]

\* upload_documents: without both files 400; else a new session under a new
\* id, with the generated questions, no answer, current_question 0
upload_documents(sessions, files_ok, session_id, all_questions) ==
  IF ~files_ok
  THEN [sessions |-> sessions,
        response |-> Response("upload", 400, [success |-> FALSE, error |-> "Both files required"])]
  ELSE [sessions |-> SetItem(sessions, session_id,
                             [questions |-> all_questions, answers |-> <<>>, current_question |-> 0]),
        response |-> Response("upload", 200, [success |-> TRUE, session_id |-> session_id,
                                              total_questions |-> Len(all_questions)])]

\* get_question
get_question(sessions, session_id) ==
  IF session_id = ""
  THEN Response("get_question", 400, [error |-> "No session ID provided"])
  ELSE IF session_id \notin DOMAIN sessions
  THEN Response("get_question", 404, [error |-> "Invalid session. Please upload files again."])
  ELSE LET session_data == sessions[session_id]
           current_idx  == session_data.current_question
           questions    == session_data.questions
       IN  IF current_idx >= Len(questions)
           THEN Response("get_question", 200, [completed |-> TRUE, message |-> "Interview completed"])
           ELSE Response("get_question", 200,
                         [completed |-> FALSE, question_number |-> current_idx + 1,
                          total_questions |-> Len(questions),
                          question |-> questions[current_idx + 1].question])

\* the except branch of a handler: 500 with str(e)
ServerError(route, e) == Response(route, 500, [success |-> FALSE, error |-> e])

\* a mutant of StoreAnswer: the answer is appended, current_question stays
StoreAnswer_NoIncrement(session_data, entry) ==
  [session_data EXCEPT !.answers = Append(@, entry)]

\* session_data['answers'].append({...}); session_data['current_question'] += 1
StoreAnswer(session_data, entry) ==
  [session_data EXCEPT !.answers = Append(@, entry), !.current_question = @ + 1]

\* a mutant of IsComplete: complete only past the last question
IsComplete_Late(session_data) == session_data.current_question > Len(session_data.questions)

\* is_complete = session_data['current_question'] >= len(session_data['questions'])
IsComplete(session_data) == session_data.current_question >= Len(session_data.questions)

\* the entry submit_answer stores for an answer
AnswerEntry(asked, answer_text, duration, bundle, fb) ==
  [question |-> asked.question, answer |-> answer_text, duration |-> duration,
   analysis |-> bundle, feedback |-> fb]

\* what submit_answer does once the answer is stored: is_complete and the
\* response with the score and the first three points of feedback
StoreAndRespond(sessions, session_id, stored, bundle, fb) ==
  [sessions |-> SetItem(sessions, session_id, stored),
   response |-> Response("submit_answer", 200,
                         [success |-> TRUE, score |-> bundle.overall_score,
                          feedback |-> Truncate(fb.value, 3),
                          is_complete |-> IsComplete(stored)])]

\* a mutant of GiveFeedback: the answer is stored before its feedback is
\* generated
GiveFeedback_StoresFirst(sessions, session_id, asked, answer_text, duration, bundle, fb) ==
  IF fb.raises # ""
  THEN [sessions |-> SetItem(sessions, session_id,
                             StoreAnswer(sessions[session_id],
                                         AnswerEntry(asked, answer_text, duration, bundle, fb.value))),
        response |-> ServerError("submit_answer", fb.raises)]
  ELSE StoreAndRespond(sessions, session_id,
                       StoreAnswer(sessions[session_id],
                                   AnswerEntry(asked, answer_text, duration, bundle, fb.value)),
                       bundle, fb)

\* what submit_answer does with the analysis and what get_feedback made of
\* it: an exception of get_feedback ends the request in the except branch,
\* else the answer is stored
GiveFeedback(sessions, session_id, asked, answer_text, duration, bundle, fb) ==
  IF fb.raises # ""
  THEN [sessions |-> sessions, response |-> ServerError("submit_answer", fb.raises)]
  ELSE StoreAndRespond(sessions, session_id,
                       StoreAnswer(sessions[session_id],
                                   AnswerEntry(asked, answer_text, duration, bundle, fb.value)),
                       bundle, fb)

\* feedback = answer_analyzer.get_feedback(analysis), and the rest
AnalyzeAndStore(sessions, session_id, asked, answer_text, duration, bundle) ==
  GiveFeedback(sessions, session_id, asked, answer_text, duration, bundle, get_feedback(bundle))

\* a mutant of submit_answer: a request for an unknown session leaves an
\* empty session under its id
submit_answer_registers_unknown_session(sessions, fillers, stops, session_id, data) ==
  IF session_id \notin DOMAIN sessions
  THEN [sessions |-> SetItem(sessions, session_id,
                             [questions |-> <<>>, answers |-> <<>>, current_question |-> 0]),
        response |-> Response("submit_answer", 404, [success |-> FALSE, error |-> "Invalid session"])]
  ELSE IF data = None
  THEN [sessions |-> sessions, response |-> ServerError("submit_answer", "AttributeError")]
  ELSE IF sessions[session_id].current_question >= Len(sessions[session_id].questions)
  THEN [sessions |-> sessions, response |-> ServerError("submit_answer", "IndexError")]
  ELSE AnalyzeAndStore(sessions, session_id,
                       sessions[session_id].questions[sessions[session_id].current_question + 1],
                       Get(data[1], "answer", <<>>), Get(data[1], "duration", 0),
                       analyze_answer(fillers, stops, Get(data[1], "answer", <<>>),
                                      sessions[session_id].questions[sessions[session_id].current_question + 1].question,
                                      None, 0))

\* submit_answer, served alone: the sessions storage it leaves and the
\* response it returns. An unknown session is a 404; a missing body
\* (data.get on None) and a current_question past the last question
\* (questions[current_idx]) end in the except branch; else analyze_answer
\* is called with the answer and the question only (no video data,
\* duration 0)
submit_answer(sessions, fillers, stops, session_id, data) ==
  IF session_id \notin DOMAIN sessions
  THEN [sessions |-> sessions,
        response |-> Response("submit_answer", 404, [success |-> FALSE, error |-> "Invalid session"])]
  ELSE IF data = None
  THEN [sessions |-> sessions, response |-> ServerError("submit_answer", "AttributeError")]
  ELSE IF sessions[session_id].current_question >= Len(sessions[session_id].questions)
  THEN [sessions |-> sessions, response |-> ServerError("submit_answer", "IndexError")]
  ELSE AnalyzeAndStore(sessions, session_id,
                       sessions[session_id].questions[sessions[session_id].current_question + 1],
                       Get(data[1], "answer", <<>>), Get(data[1], "duration", 0),
                       analyze_answer(fillers, stops, Get(data[1], "answer", <<>>),
                                      sessions[session_id].questions[sessions[session_id].current_question + 1].question,
                                      None, 0))

\* generate_report, as far as the sessions storage goes: it reads the
\* session and writes nothing; the report generator succeeds or not
generate_report(sessions, session_id, success) ==
  IF session_id \notin DOMAIN sessions
  THEN Response("generate_report", 404, [success |-> FALSE, error |-> "Invalid session"])
  ELSE IF ~success
  THEN Response("generate_report", 500, [success |-> FALSE, error |-> "Failed to generate report"])
  ELSE Response("generate_report", 200, [success |-> TRUE, answers |-> Len(sessions[session_id].answers)])

\* no request is being served
InitWeb ==
  /\ AnalyzerInit
  /\ answer = None /\ question = None /\ video_data = None /\ audio_duration = 0
  /\ pc = "serving"
  /\ analysis = None
  /\ ran = {}
  /\ feedback = <<>>
  /\ raised = ""
  /\ calls = <<>>
  /\ heap = <<>>
  /\ threads = <<>>
  /\ WebIdle

\* a response, kept with the request it answers
Served(route, session_id, data, r) ==
  [request |-> [route |-> route, session_id |-> session_id, data |-> data],
   status |-> r.status, body |-> r.body]

\* what a request leaves unchanged: the analyzer and the video loop
WebFrame ==
  UNCHANGED <<filler_words, stop_words, answer, question, video_data, audio_duration,
              pc, analysis, ran, feedback, raised, calls, heap, threads, video>>

\* POST /upload
UploadDocuments ==
  /\ \E id \in SessionIds : id \notin DOMAIN interview_sessions
  /\ \E files_ok \in BOOLEAN, all_questions \in GeneratedQuestions :
       LET session_id == CHOOSE id \in SessionIds : id \notin DOMAIN interview_sessions
           r == upload_documents(interview_sessions, files_ok, session_id, all_questions)
       IN  /\ interview_sessions' = r.sessions
           /\ response' = Some(Served("upload", session_id, files_ok, r.response))
  /\ WebFrame

\* GET /api/get-question/<session_id>
GetQuestion ==
  /\ \E session_id \in SessionIds \cup {UnknownSession} :
       response' = Some(Served("get_question", session_id, None, get_question(interview_sessions, session_id)))
  /\ UNCHANGED interview_sessions
  /\ WebFrame

\* POST /api/submit-answer/<session_id>
SubmitAnswer ==
  /\ \E session_id \in SessionIds \cup {UnknownSession}, data \in Bodies :
       LET r == submit_answer(interview_sessions, filler_words, stop_words, session_id, data)
       IN  /\ interview_sessions' = r.sessions
           /\ response' = Some(Served("submit_answer", session_id, data, r.response))
  /\ WebFrame

\* POST /api/generate-report/<session_id>
GenerateReport ==
  /\ \E session_id \in SessionIds \cup {UnknownSession}, success \in BOOLEAN :
       response' = Some(Served("generate_report", session_id, None, generate_report(interview_sessions, session_id, success)))
  /\ UNCHANGED interview_sessions
  /\ WebFrame

NextWeb == UploadDocuments \/ GetQuestion \/ SubmitAnswer \/ GenerateReport

SpecWeb == InitWeb /\ [][NextWeb]_vars

\* ------------------------------------------------------------------------
\* Properties of the web application, one request at a time (SpecWeb)
\* ------------------------------------------------------------------------

\* the request just served was submit_answer
Submitted == response # None /\ response[1].request.route = "submit_answer"

\* the answer text a submit_answer request carries, None without a body
SubmittedText(r) == IF r.request.data = None THEN None ELSE Some(Get(r.request.data[1], "answer", <<>>))

\* the request just served was submit_answer with an empty or whitespace-only answer
SubmittedBlank == Submitted /\ SubmittedText(response[1]) # None /\ IsBlank(SubmittedText(response[1])[1])

\* a session has a question left to answer
QuestionLeft(sessions, sid) ==
  sid \in DOMAIN sessions /\ sessions[sid].current_question < Len(sessions[sid].questions)

\* C22: submit_answer with an empty or whitespace-only answer returns an
\* error response (when the session has a question left: get_feedback fails
\* with a KeyError on the zeroed bundle) and leaves the sessions storage as
\* it was: no answer stored, current_question the same
C22_BlankAnswerIsRejected ==
  [][SubmittedBlank' =>
       /\ response'[1].status # 200
       /\ response'[1].body.success = FALSE
       /\ QuestionLeft(interview_sessions, response'[1].request.session_id)
            => (response'[1].status = 500 /\ response'[1].body.error = "KeyError")
       /\ interview_sessions' = interview_sessions]_vars

\* C22 witness: a whitespace-only answer to a session with a question left
\* was refused with the KeyError, and the session has no answer
C22_Witness ==
  /\ SubmittedBlank
  /\ response[1].request.data = Some([answer |-> <<" ", " ">>])
  /\ response[1].body.error = "KeyError"
  /\ QuestionLeft(interview_sessions, response[1].request.session_id)
  /\ interview_sessions[response[1].request.session_id].answers = <<>>

\* ------------------------------------------------------------------------
\* submit_answer requests served at the same time by the threads of the
\* development server (app.run, threaded), on the one interview_sessions
\* dict, which no lock protects (SpecWebConc). A thread can be switched
\* between any two of its reads and writes of the session: reading
\* current_question, appending the answer, and the read and the write of
\* current_question += 1
\* ------------------------------------------------------------------------

\* a session as upload_documents stores it
NewSession(all_questions) == [questions |-> all_questions, answers |-> <<>>, current_question |-> 0]

\* the requests the threads serve: one submit_answer each
WebRequests == [session_id : {"s1", UnknownSession}, data : Bodies]

InitWebConc ==
  /\ AnalyzerInit
  /\ answer = None /\ question = None /\ video_data = None /\ audio_duration = 0
  /\ pc = "serving"
  /\ analysis = None
  /\ ran = {}
  /\ feedback = <<>>
  /\ raised = ""
  /\ calls = <<>>
  /\ heap = <<>>
  /\ threads \in [Threads -> {[request |-> r, pc |-> "called", current_idx |-> 0, entry |-> None,
                               loaded |-> 0, status |-> 0, body |-> EmptyDict] : r \in WebRequests}]
  /\ \E all_questions \in GeneratedQuestions :
       interview_sessions = SetItem(EmptyDict, "s1", NewSession(all_questions))
  /\ response = None
  /\ video = VideoIdle

\* what a step of a request thread leaves unchanged
ThreadFrame ==
  UNCHANGED <<filler_words, stop_words, answer, question, video_data, audio_duration,
              pc, analysis, ran, feedback, raised, calls, heap, video>>

\* the thread returns a response
Responds(t, r) ==
  /\ threads' = [threads EXCEPT ![t] = [@ EXCEPT !.pc = "responded", !.status = r.status, !.body = r.body]]
  /\ response' = Some(Served("submit_answer", threads[t].request.session_id, threads[t].request.data, r))

\* if session_id not in interview_sessions: 404; data = request.get_json();
\* answer_text = data.get('answer', '')
TReceive(t) ==
  /\ threads[t].pc = "called"
  /\ IF threads[t].request.session_id \notin DOMAIN interview_sessions
     THEN Responds(t, Response("submit_answer", 404, [success |-> FALSE, error |-> "Invalid session"]))
     ELSE IF threads[t].request.data = None
     THEN Responds(t, ServerError("submit_answer", "AttributeError"))
     ELSE threads' = [threads EXCEPT ![t].pc = "received"] /\ UNCHANGED response
  /\ UNCHANGED interview_sessions
  /\ ThreadFrame

\* current_idx = session_data['current_question'];
\* question = session_data['questions'][current_idx]
TReadQuestion(t) ==
  /\ threads[t].pc = "received"
  /\ LET session_data == interview_sessions[threads[t].request.session_id]
     IN  IF session_data.current_question >= Len(session_data.questions)
         THEN Responds(t, ServerError("submit_answer", "IndexError"))
         ELSE /\ threads' = [threads EXCEPT ![t] =
                               [@ EXCEPT !.pc = "asked", !.current_idx = session_data.current_question]]
              /\ UNCHANGED response
  /\ UNCHANGED interview_sessions
  /\ ThreadFrame

\* analysis = answer_analyzer.analyze_answer(answer_text, question['question']);
\* feedback = answer_analyzer.get_feedback(analysis)
TAnalyzeAnswer(t) ==
  /\ threads[t].pc = "asked"
  /\ LET session_data == interview_sessions[threads[t].request.session_id]
         asked        == session_data.questions[threads[t].current_idx + 1]
         answer_text  == Get(threads[t].request.data[1], "answer", <<>>)
         duration     == Get(threads[t].request.data[1], "duration", 0)
         bundle       == analyze_answer(filler_words, stop_words, answer_text, asked.question, None, 0)
         fb           == get_feedback(bundle)
     IN  IF fb.raises # ""
         THEN Responds(t, ServerError("submit_answer", fb.raises))
         ELSE /\ threads' = [threads EXCEPT ![t] =
                               [@ EXCEPT !.pc = "analyzed",
                                         !.entry = Some(AnswerEntry(asked, answer_text, duration, bundle, fb.value))]]
              /\ UNCHANGED response
  /\ UNCHANGED interview_sessions
  /\ ThreadFrame

\* session_data['answers'].append({...})
TAppend(t) ==
  /\ threads[t].pc = "analyzed"
  /\ interview_sessions' = [interview_sessions EXCEPT ![threads[t].request.session_id].answers =
                              Append(@, threads[t].entry[1])]
  /\ threads' = [threads EXCEPT ![t].pc = "appended"]
  /\ UNCHANGED response
  /\ ThreadFrame

\* session_data['current_question'] += 1: the read
TLoad(t) ==
  /\ threads[t].pc = "appended"
  /\ threads' = [threads EXCEPT ![t] =
                   [@ EXCEPT !.pc = "loaded",
                             !.loaded = interview_sessions[threads[t].request.session_id].current_question]]
  /\ UNCHANGED <<interview_sessions, response>>
  /\ ThreadFrame

\* session_data['current_question'] += 1: the write
TStore(t) ==
  /\ threads[t].pc = "loaded"
  /\ interview_sessions' = [interview_sessions EXCEPT ![threads[t].request.session_id].current_question =
                              threads[t].loaded + 1]
  /\ threads' = [threads EXCEPT ![t].pc = "stored"]
  /\ UNCHANGED response
  /\ ThreadFrame

\* is_complete = ...; return jsonify({...})
TRespond(t) ==
  /\ threads[t].pc = "stored"
  /\ Responds(t, Response("submit_answer", 200,
                          [success |-> TRUE, score |-> threads[t].entry[1].analysis.overall_score,
                           feedback |-> Truncate(threads[t].entry[1].feedback, 3),
                           is_complete |-> IsComplete(interview_sessions[threads[t].request.session_id])]))
  /\ UNCHANGED interview_sessions
  /\ ThreadFrame

NextWebConc ==
  \E t \in Threads : \/ TReceive(t) \/ TReadQuestion(t) \/ TAnalyzeAnswer(t) \/ TAppend(t)
                     \/ TLoad(t) \/ TStore(t) \/ TRespond(t)

SpecWebConc == InitWebConc /\ [][NextWebConc]_vars

\* no request is between storing its answer and moving the session on
NoneStoring == \A t \in DOMAIN threads : threads[t].pc \notin {"appended", "loaded"}

\* the i-th stored answer of a session is the answer to its i-th question,
\* and current_question is the number of stored answers
InStep(session_data) ==
  /\ Len(session_data.answers) <= Len(session_data.questions)
  /\ \A i \in 1..Len(session_data.answers) :
       session_data.answers[i].question = session_data.questions[i].question
  /\ session_data.current_question = Len(session_data.answers)

\* C23: under concurrent submit_answer requests on the same session every
\* question gets at most one stored answer and none is skipped: whenever no
\* request is in the middle of storing, the i-th answer of the session is
\* the answer to its i-th question and current_question is the number of
\* stored answers
C23_ConcurrentSubmitsKeepStep ==
  NoneStoring => \A sid \in DOMAIN interview_sessions : InStep(interview_sessions[sid])

\* 0 <= current_question <= len(questions) and len(answers) = current_question
WithinQuestions(session_data) ==
  /\ 0 <= session_data.current_question
  /\ session_data.current_question <= Len(session_data.questions)
  /\ Len(session_data.answers) = session_data.current_question

\* the request just served was a successful submit_answer
SubmittedOk == Submitted /\ response[1].status = 200

\* the step stores, in the session of the request served, one more answer,
\* the submitted text for the question that was current, and moves
\* current_question on by one; every other session stays as it was
AdvancesByOne ==
  LET sid == response'[1].request.session_id
      old == interview_sessions[sid]
      new == interview_sessions'[sid]
  IN  /\ sid \in DOMAIN interview_sessions
      /\ DOMAIN interview_sessions' = DOMAIN interview_sessions
      /\ \A other \in DOMAIN interview_sessions \ {sid} : interview_sessions'[other] = interview_sessions[other]
      /\ new.questions = old.questions
      /\ new.current_question = old.current_question + 1
      /\ Len(new.answers) = Len(old.answers) + 1
      /\ SubSeq(new.answers, 1, Len(old.answers)) = old.answers
      /\ new.answers[Len(new.answers)].question = old.questions[old.current_question + 1].question
      /\ Some(new.answers[Len(new.answers)].answer) = SubmittedText(response'[1])

\* C24: with requests handled one at a time, every session has
\* 0 <= current_question <= len(questions) and len(answers) =
\* current_question, and each successful submit_answer appends exactly one
\* answer, for the question that was current, and increments
\* current_question by exactly 1
C24_SessionAdvancesOneAnswerAtATime ==
  /\ [](\A sid \in DOMAIN interview_sessions : WithinQuestions(interview_sessions[sid]))
  /\ [][SubmittedOk' => AdvancesByOne]_vars

\* C24 witness: the second answer of a session of two questions was just
\* accepted
C24_Witness ==
  /\ SubmittedOk
  /\ LET session_data == interview_sessions[response[1].request.session_id]
     IN  /\ Len(session_data.questions) = 2
         /\ session_data.current_question = 2
         /\ Len(session_data.answers) = 2
         /\ session_data.answers[2].question = QuestionText(2)

\* the request just served was a submit_answer that returned an error
SubmittedError == Submitted /\ response[1].status # 200

\* C25: every submit_answer request that returns an error response (unknown
\* session, missing JSON body, analysis or feedback failure, a submit after
\* all questions were answered) leaves the whole interview_sessions store
\* unchanged
C25_ErrorLeavesSessionsUnchanged ==
  [][SubmittedError' => interview_sessions' = interview_sessions]_vars

\* C25 witness: a submit after the last question was answered was refused,
\* the two stored answers still there next to a second session
C25_Witness ==
  /\ SubmittedError
  /\ response[1].body.error = "IndexError"
  /\ response[1].request.session_id = "s1"
  /\ DOMAIN interview_sessions = {"s1", "s2"}
  /\ Len(interview_sessions["s1"].answers) = 2
  /\ interview_sessions["s1"].current_question = 2

\* every question of the session has its answer
AllAnswered(session_data) == Len(session_data.answers) >= Len(session_data.questions)

\* the request just served was a get_question that found its session
GotQuestion ==
  /\ response # None
  /\ response[1].request.route = "get_question"
  /\ response[1].status = 200

\* is_complete of a successful submit_answer is true exactly when it stored
\* the answer to the last question
CompleteOnLastAnswer ==
  SubmittedOk =>
    (response[1].body.is_complete <=> AllAnswered(interview_sessions[response[1].request.session_id]))

\* get_question answers completed = true once every question is answered,
\* and before that the question numbered current_question + 1
QuestionOrCompleted ==
  GotQuestion =>
    LET session_data == interview_sessions[response[1].request.session_id]
    IN  /\ response[1].body.completed <=> AllAnswered(session_data)
        /\ ~response[1].body.completed =>
             /\ response[1].body.question_number = session_data.current_question + 1
             /\ response[1].body.question = session_data.questions[session_data.current_question + 1].question

\* a session whose questions are all answered stays so
StaysComplete ==
  \A sid \in DOMAIN interview_sessions :
     AllAnswered(interview_sessions[sid]) =>
       sid \in DOMAIN interview_sessions' /\ AllAnswered(interview_sessions'[sid])

\* C26: with requests handled one at a time, for a session of N questions
\* is_complete is returned true on the N-th successful submit_answer and on
\* no earlier one; from then on get_question answers completed = true,
\* before that it returns question number current_question + 1; a complete
\* session never becomes incomplete again
C26_CompletionIsReachedOnceAndKept ==
  /\ [](CompleteOnLastAnswer /\ QuestionOrCompleted)
  /\ [][StaysComplete]_vars

\* C26 witness: get_question answers completed for a session whose two
\* questions are answered
C26_Witness ==
  /\ GotQuestion
  /\ response[1].body.completed
  /\ Len(interview_sessions[response[1].request.session_id].questions) = 2
  /\ Len(interview_sessions[response[1].request.session_id].answers) = 2

\* ------------------------------------------------------------------------
\* The video analysis of InterviewSystem (src/interview_system.py): the
\* background video loop, which calls VideoAnalyzer.analyze_frame on each
\* captured frame, and conduct_interview, which stops it, waits for it at
\* most 2 seconds and reads the session summary (SpecVideoLoop)
\* ------------------------------------------------------------------------

\* the most frames the loop analyses
MaxFrames == 3

InitVideoLoop ==
  /\ AnalyzerInit
  /\ answer = None /\ question = None /\ video_data = None /\ audio_duration = 0
  /\ pc = "serving"
  /\ analysis = None
  /\ ran = {}
  /\ feedback = <<>>
  /\ raised = ""
  /\ calls = <<>>
  /\ heap = <<>>
  /\ threads = <<>>
  /\ WebIdle

\* what the video analysis leaves unchanged
VideoFrame ==
  UNCHANGED <<filler_words, stop_words, answer, question, video_data, audio_duration,
              pc, analysis, ran, feedback, raised, calls, heap, threads,
              interview_sessions, response>>

\* _start_video_analysis: without a camera nothing is started; else
\* video_running = True and the thread of video_loop starts
StartVideoAnalysis ==
  /\ video.main = "ready"
  /\ \E camera \in BOOLEAN :
       video' = IF camera
                THEN [video EXCEPT !.video_running = TRUE, !.loop = "top", !.main = "interview"]
                ELSE [video EXCEPT !.main = "done"]
  /\ VideoFrame

\* while self.video_running: ret, frame = capture_frame(); without a frame
\* the loop sleeps and tests again
LoopCapture ==
  /\ video.loop = "top"
  /\ \E ret \in BOOLEAN :
       video' = IF ~video.video_running THEN [video EXCEPT !.loop = "ended"]
                ELSE IF ret /\ video.total_frames < MaxFrames THEN [video EXCEPT !.loop = "captured"]
                ELSE video
  /\ video' # video
  /\ VideoFrame

\* analyze_frame, to the detection: with a face in the frame
\* session_data['face_detected_frames'] += 1, and the face mesh is processed
AnalyzeFrameDetect ==
  /\ video.loop = "captured"
  /\ \E face_detected \in BOOLEAN :
       video' = [video EXCEPT !.loop = "detected",
                              !.face_detected_frames = IF face_detected THEN @ + 1 ELSE @]
  /\ VideoFrame

\* analyze_frame, its end: session_data['total_frames'] += 1; the loop
\* sleeps and tests video_running again
AnalyzeFrameCount ==
  /\ video.loop = "detected"
  /\ video' = [video EXCEPT !.loop = "top", !.total_frames = @ + 1]
  /\ VideoFrame

\* _stop_video_analysis: self.video_running = False
StopVideoAnalysis ==
  /\ video.main = "interview"
  /\ video' = [video EXCEPT !.video_running = FALSE, !.main = "joining"]
  /\ VideoFrame

\* self.video_thread.join(timeout=2): returns when the loop has ended, or
\* after 2 seconds wherever the loop is
JoinVideoThread ==
  /\ video.main = "joining"
  /\ video' = [video EXCEPT !.main = "joined"]
  /\ VideoFrame

\* get_session_summary: total = self.session_data['total_frames']
SummaryReadTotal ==
  /\ video.main = "joined"
  /\ video' = [video EXCEPT !.main = "summing", !.total = video.total_frames]
  /\ VideoFrame

\* get_session_summary: face_rate = face_detected_frames / total if
\* total > 0 else 0, and the summary with face_rate * 100 (kept as the
\* fraction num / den)
SummaryReturn ==
  /\ video.main = "summing"
  /\ video' = [video EXCEPT !.main = "done",
                            !.summary = Some([total_frames_analyzed |-> video.total,
                                              face_detection_rate |->
                                                IF video.total > 0
                                                THEN [num |-> 100 * video.face_detected_frames, den |-> video.total]
                                                ELSE [num |-> 0, den |-> 1]])]
  /\ VideoFrame

NextVideoLoop ==
  \/ StartVideoAnalysis \/ LoopCapture \/ AnalyzeFrameDetect \/ AnalyzeFrameCount
  \/ StopVideoAnalysis \/ JoinVideoThread \/ SummaryReadTotal \/ SummaryReturn

SpecVideoLoop == InitVideoLoop /\ [][NextVideoLoop]_vars

\* C27: every summary get_session_summary returns has a face detection rate
\* of at most 100 (face_detected_frames <= total_frames), also when it is
\* read after join(timeout=2) timed out with the video loop still inside
\* analyze_frame
C27_FaceDetectionRateAtMost100 ==
  video.summary # None =>
    video.summary[1].face_detection_rate.num <= 100 * video.summary[1].face_detection_rate.den

\* ------------------------------------------------------------------------
\* More properties of the analyzers on the chosen answers (SpecTexts)
\* ------------------------------------------------------------------------

\* the fluency score before the adjustment for the speaking rate, from the
\* counts of the bundle
FluencyBeforeRate(sp) ==
  100 - Min(sp.filler_word_count * 5, 30) - Min(sp.stuttering_instances * 10, 20)
      - Min(sp.pause_indicators * 5, 15)

\* the 10 points for the speaking rate were subtracted, or were not
RatePenalised(sp) == sp.fluency_score = Pts(FluencyBeforeRate(sp) - 10)
RateNotPenalised(sp) == sp.fluency_score = Pts(FluencyBeforeRate(sp))

\* C28: the 10-point speaking-rate penalty is subtracted from fluency_score
\* exactly when speaking_pace is 'too slow' or 'too fast', that is exactly
\* when feedback rule 6 fires; every 'too fast' rate is penalised
C28_PenaltyIffPaceOutOfRange ==
  (Analyzed /\ ~IsBlank(answer)) =>
    /\ Speech.speaking_pace \in {"too slow", "too fast"} <=> 6 \in TriggeredRules(analysis[1])
    /\ IF Speech.speaking_pace \in {"too slow", "too fast"}
       THEN RatePenalised(Speech) ELSE RateNotPenalised(Speech)

\* C28, amended: the penalty is subtracted exactly when the rate is known
\* and below 100 or above 200. Then speaking_pace is 'too slow' or 'too
\* fast' and rule 6 fires, but not the other way round: a rate from 190 to
\* 200 is 'too fast' and fires rule 6 without the penalty
C28_PenaltyBelow100OrAbove200 ==
  (Analyzed /\ ~IsBlank(answer)) =>
    LET nwords == analysis[1].text_metrics.word_count
        out    == audio_duration > 0 /\ (60 * nwords < 100 * audio_duration \/ 60 * nwords > 200 * audio_duration)
        mild   == audio_duration > 0 /\ 60 * nwords >= 190 * audio_duration /\ 60 * nwords <= 200 * audio_duration
    IN  /\ Speech.speaking_pace \in {"too slow", "too fast"} <=> 6 \in TriggeredRules(analysis[1])
        /\ IF out THEN RatePenalised(Speech) ELSE RateNotPenalised(Speech)
        /\ out => Speech.speaking_pace \in {"too slow", "too fast"}
        /\ Speech.speaking_pace \in {"too slow", "too fast"} => (out \/ mild)
        /\ mild => Speech.speaking_pace = "too fast"

\* C28 witness: 20 words in 6 seconds, 200 words a minute: 'too fast', rule
\* 6, and the fluency score without the 10 points
C28_Witness ==
  /\ Analyzed
  /\ audio_duration = 6
  /\ analysis[1].text_metrics.word_count = 20
  /\ Speech.speaking_rate = Pts(200)
  /\ Speech.speaking_pace = "too fast"
  /\ 6 \in TriggeredRules(analysis[1])
  /\ RateNotPenalised(Speech)

\* the string rule 3 of get_feedback appends
MoreDetailMessage == "Provide more detailed responses with concrete details and outcomes"

\* C29: on the bundle of a non-empty answer, feedback rule 3
\* (quality_score < 60) fires only if rules 1 (no examples) and 2 (no
\* quantifiable results) fire too, a quality score below 60 leaving no room
\* for an example or a quantified result; so the 'more detail' message is
\* never the first item of the feedback list (it is the third when rule 3
\* fires)
C29_MoreDetailNeverFirst ==
  (Analyzed /\ ~IsBlank(answer)) =>
    LET content == analysis[1].content_quality
    IN  /\ 3 \in TriggeredRules(analysis[1]) => {1, 2} \subseteq TriggeredRules(analysis[1])
        /\ content.quality_score < Pts(60) =>
             (~content.has_specific_examples /\ ~content.has_quantifiable_results)
        /\ pc = "returned" =>
             /\ Len(feedback) >= 1 /\ feedback[1] # MoreDetailMessage
             /\ 3 \in TriggeredRules(analysis[1]) => (Len(feedback) >= 3 /\ feedback[3] = MoreDetailMessage)
             /\ 3 \notin TriggeredRules(analysis[1]) => \A i \in 1..Len(feedback) : feedback[i] # MoreDetailMessage

\* C29 witness: an answer that names a task, quality score 55, got its
\* feedback: rules 1, 2 and 3 in that order
C29_Witness ==
  /\ Analyzed
  /\ pc = "returned"
  /\ analysis[1].content_quality.quality_score = Pts(55)
  /\ {1, 2, 3} \subseteq TriggeredRules(analysis[1])
  /\ feedback[3] = MoreDetailMessage

\* ------------------------------------------------------------------------
\* analyze_answer and get_feedback on empty and whitespace-only answers and
\* on answers chosen to score low on every analyzer at once: fillers,
\* stutters, pauses, casual words, negative words, short sentences, nothing
\* of the question, a slow rate and a sad, disengaged face (SpecFloor)
\* ------------------------------------------------------------------------

LowAnswers ==
  { <<>>,
    <<" ">>,
    <<" ","	"," ">>,
    <<"b","a","d">>,
    <<"b","a","d","."," ","b","a","d","."," ","b","a","d",".">>,
    <<"w","o","r","k">>,
    <<"u","m"," ","u","h"," ","u","m"," ","u","h"," ","s","o"," ","s","o"," ","b","a","d"," ","b","a","d",".","."," ","b","a","d"," ","b","a","d",".",".","."," ","g","o","n","n","a"," ","w","a","n","n","a"," ","k","i","n","d","a"," ","s","o","r","t","a"," ","s","t","u","f","f"," ","t","h","i","n","g","s"," ","l","i","k","e">>,
    <<"u","m","."," ","u","h","."," ","u","m"," ","u","h","."," ","b","a","d"," ","b","a","d",".","."," ","b","a","d"," ","b","a","d",".",".","."," ","g","o","n","n","a"," ","w","a","n","n","a","."," ","k","i","n","d","a"," ","s","o","r","t","a","."," ","s","t","u","f","f"," ","t","h","i","n","g","s","."," ","l","i","k","e"," ","y","e","a","h",".">>,
    <<"f","a","i","l","e","d"," ","f","a","i","l","e","d",".","."," ","p","r","o","b","l","e","m"," ","p","r","o","b","l","e","m",".",".","."," ","u","m"," ","u","h"," ","u","m"," ","u","h"," ","u","m"," ","u","h"," ","g","o","n","n","a"," ","w","a","n","n","a"," ","k","i","n","d","a"," ","s","o","r","t","a"," ","s","t","u","f","f"," ","t","h","i","n","g","s"," ","y","e","a","h"," ","l","i","k","e">> }

LowSignals ==
  { None,
    Some(EmptyDict),
    Some([eye_contact_percentage |-> 0, dominant_emotion |-> "sad", engagement_score |-> 0]),
    Some([eye_contact_percentage |-> 1000, dominant_emotion |-> "worried", engagement_score |-> 995]) }

InitFloor ==
  /\ AnalyzerInit
  /\ answer \in LowAnswers
  /\ question \in {<<>>, PythonQuestion}
  /\ video_data \in LowSignals
  /\ audio_duration \in {0, 1, 600}
  /\ pc = "called"
  /\ analysis = None
  /\ ran = {}
  /\ feedback = <<>>
  /\ raised = ""
  /\ calls = <<>>
  /\ heap = <<>>
  /\ threads = <<>>
  /\ WebIdle

SpecFloor == InitFloor /\ [][Next]_vars

====
